---- MODULE Spec2Model ----
(***************************************************************************)
(* VerifyAi analysis pipeline: provider fan-out, CrossReferenceEngine,     *)
(* RedTeamAgent and the Orchestrator's final verdict.                      *)
(*                                                                         *)
(* Scores are Python floats in the source.  The model carries every score  *)
(* as an exact binary64 value so that round(), the comparisons and the     *)
(* order of accumulation behave as they do in the interpreter.  A binary64 *)
(* value is held as a natural number N standing for N / 2^FracBits, N kept *)
(* as a little-endian sequence of limbs below Base (TLC's own integers are *)
(* 32 bits wide).  A decimal score is written in thousandths ("mils").     *)
(*                                                                         *)
(* Notation: CHOOSE r \in {e : x \in {d}} : TRUE is LET x == d IN e with d  *)
(* computed once, whatever the number of times e uses x.                   *)
(***************************************************************************)
EXTENDS Integers, Sequences, FiniteSets, TLC

\* ------------------------------------------------------------------------
\* Natural numbers of arbitrary size (limbs, least significant first; no
\* leading zero limb; zero is the empty sequence).
\* ------------------------------------------------------------------------
LimbBits == 15
Base == 2 ^ LimbBits
FracLimbs == 5
FracBits == FracLimbs * LimbBits
MantBits == 53

Max2(x, y) == CHOOSE r \in {IF a >= b THEN a ELSE b : a \in {x}, b \in {y}} : TRUE

MaxOf(S) == CHOOSE r \in {CHOOSE x \in T : \A y \in T : y <= x : T \in {S}} : TRUE

Limb(a, i) == IF i <= Len(a) THEN a[i] ELSE 0

Trim(x) ==
    CHOOSE r \in {
        IF \A i \in 1..Len(a) : a[i] = 0 THEN << >>
        ELSE SubSeq(a, 1, MaxOf({i \in 1..Len(a) : a[i] # 0}))
        : a \in {x}} : TRUE

BigFromInt(n) == Trim(<<n % Base, (n \div Base) % Base, n \div (Base * Base)>>)

\* for a below 2^31
BigToInt(x) ==
    CHOOSE r \in {Limb(a, 1) + Base * Limb(a, 2) + Base * Base * Limb(a, 3)
                  : a \in {x}} : TRUE

\* ------------------------------------------------------------------------
\* The operations below are reached through Num alone: an operation is named
\* where it is used (FAdd(a, b)) and defined once (DoFAdd), with Num between
\* the two.  Num takes the arguments as a tuple, so they are values when an
\* operation starts.
\* ------------------------------------------------------------------------
RECURSIVE Num(_, _)

MulFrom(a, b, i, acc) == Num("MulFrom", <<a, b, i, acc>>)

BigMul(a, b) == Num("BigMul", <<a, b>>)

QuotDigit(r, d) == Num("QuotDigit", <<r, d>>)

QuotBetween(r, d, rt, dt, exact) == Num("QuotBetween", <<r, d, rt, dt, exact>>)

DivFrom(a, d, i, q, r) == Num("DivFrom", <<a, d, i, q, r>>)

DivSmallFrom(a, d, i, q, r) == Num("DivSmallFrom", <<a, d, i, q, r>>)

DivDigit(a, d, i, q, r2, t) == Num("DivDigit", <<a, d, i, q, r2, t>>)

RoundAt(q, c, s, sticky) == Num("RoundAt", <<q, c, s, sticky>>)

RoundQuotient(x) == Num("RoundQuotient", <<x>>)

BigDivMod(a, d) == Num("BigDivMod", <<a, d>>)

RoundNearestEven(n, sticky) == Num("RoundNearestEven", <<n, sticky>>)

FromRatio(n, d) == Num("FromRatio", <<n, d>>)

FromMils(k) == Num("FromMils", <<k>>)

FAdd(a, b) == Num("FAdd", <<a, b>>)

FSub(a, b) == Num("FSub", <<a, b>>)

FMul(a, b) == Num("FMul", <<a, b>>)

FDiv(a, b) == Num("FDiv", <<a, b>>)

FLess(a, b) == Num("FLess", <<a, b>>)

FLeq(a, b) == Num("FLeq", <<a, b>>)

Round3(x) == Num("Round3", <<x>>)

SFromMils(k) == Num("SFromMils", <<k>>)

SAdd(x, y) == Num("SAdd", <<x, y>>)

SLess(x, y) == Num("SLess", <<x, y>>)

SRound3(x) == Num("SRound3", <<x>>)

Accumulate(results, i, ws, tw) == Num("Accumulate", <<results, i, ws, tw>>)

CombinedScore(results) == Num("CombinedScore", <<results>>)

Quotient(acc) == Num("Quotient", <<acc>>)

FloatGapExceeds(hi, lo, limit) == Num("FloatGapExceeds", <<hi, lo, limit>>)

SSum(adjs) == Num("SSum", <<adjs>>)

RoundedAdjustment(adjs) == Num("RoundedAdjustment", <<adjs>>)

SDivInt(x, n) == Num("SDivInt", <<x, n>>)

AdjustedScore(base_score, adj) == Num("AdjustedScore", <<base_score, adj>>)

SMin(x, y) == Num("SMin", <<x, y>>)

SMax(x, y) == Num("SMax", <<x, y>>)

Round2(x) == Num("Round2", <<x>>)

SRound2(x) == Num("SRound2", <<x>>)

PenaltyFrom(anomalies, i, acc) == Num("PenaltyFrom", <<anomalies, i, acc>>)

\* limb i of a + b: the carry into it is set by the nearest lower limb whose
\* sum is not Base - 1
BigAdd(x, y) ==
    CHOOSE r \in {
        LET n == Max2(Len(a), Len(b))
            s == [i \in 1..(n + 1) |-> Limb(a, i) + Limb(b, i)]
            c == [i \in 1..(n + 1) |->
                    IF \E j \in 1..(i - 1) :
                          s[j] >= Base /\ \A k \in (j + 1)..(i - 1) : s[k] = Base - 1
                    THEN 1 ELSE 0]
        IN  Trim([i \in 1..(n + 1) |-> (s[i] + c[i]) % Base])
        : a \in {x}, b \in {y}} : TRUE

\* a - b for a >= b, borrows found as the carries are
BigSub(x, y) ==
    CHOOSE r \in {
        LET n == Len(a)
            w == [i \in 1..n |->
                    IF \E j \in 1..(i - 1) :
                          a[j] < Limb(b, j) /\ \A k \in (j + 1)..(i - 1) : a[k] = Limb(b, k)
                    THEN 1 ELSE 0]
        IN  Trim([i \in 1..n |-> (a[i] - Limb(b, i) - w[i] + Base) % Base])
        : a \in {x}, b \in {y}} : TRUE

\* -1, 0, 1 as a < b, a = b, a > b
BigCmp(x, y) ==
    CHOOSE r \in {
        IF Len(a) > Len(b) THEN 1
        ELSE IF Len(a) < Len(b) THEN -1
        ELSE IF a = b THEN 0
        ELSE CHOOSE c \in {IF a[i] > b[i] THEN 1 ELSE -1
                           : i \in {MaxOf({j \in 1..Len(a) : a[j] # b[j]})}} : TRUE
        : a \in {x}, b \in {y}} : TRUE

\* a * k for 0 <= k < Base: the low and the high halves of the limb products
BigMulSmall(x, k) ==
    CHOOSE r \in {
        BigAdd([i \in 1..Len(a) |-> (a[i] * m) % Base],
               <<0>> \o [i \in 1..Len(a) |-> (a[i] * m) \div Base])
        : a \in {x}, m \in {k}} : TRUE

Zeros(n) == [i \in 1..n |-> 0]

\* a * b by Horner's rule from the top limb of b down: acc is a times the
\* limbs of b above i
DoMulFrom(a, b, i, acc) ==
    IF i = 0 THEN acc
    ELSE MulFrom(a, b, i - 1,
                 BigAdd(BigMulSmall(a, b[i]), IF acc = << >> THEN acc ELSE <<0>> \o acc))

DoBigMul(a, b) == MulFrom(a, b, Len(b), << >>)

\* a * 2^k
BigShl(x, k) ==
    CHOOSE r \in {
        IF a = << >> THEN a
        ELSE Zeros(n \div LimbBits) \o BigMulSmall(a, 2 ^ (n % LimbBits))
        : a \in {x}, n \in {k}} : TRUE

\* floor(a / 2^k)
BigShr(x, k) ==
    CHOOSE r \in {
        IF Len(a) <= n THEN << >>
        ELSE Trim([i \in 1..(Len(a) - n) |->
                     (a[i + n] \div m) + (Limb(a, i + n + 1) % m) * (Base \div m)])
        : a \in {x}, n \in {k \div LimbBits}, m \in {2 ^ (k % LimbBits)}} : TRUE

\* a mod 2^k
BigLow(x, k) ==
    CHOOSE r \in {
        IF n >= Len(a) THEN a
        ELSE Trim(SubSeq(a, 1, n) \o <<a[n + 1] % m>>)
        : a \in {x}, n \in {k \div LimbBits}, m \in {2 ^ (k % LimbBits)}} : TRUE

IntBitLen(n) == IF n = 0 THEN 0 ELSE 1 + MaxOf({i \in 0..30 : 2 ^ i <= n})

BitLen(x) ==
    CHOOSE r \in {
        IF a = << >> THEN 0 ELSE LimbBits * (Len(a) - 1) + IntBitLen(a[Len(a)])
        : a \in {x}} : TRUE

\* the digit t with d * t <= r < d * (t + 1), for r < d * Base: both numbers
\* cut to the 16 leading bits of d bracket t within two candidates (and give
\* t itself when d has no more bits than that)
DoQuotDigit(r, d) ==
    QuotBetween(r, d,
                BigToInt(BigShr(r, Max2(BitLen(d) - (LimbBits + 1), 0))),
                BigToInt(BigShr(d, Max2(BitLen(d) - (LimbBits + 1), 0))),
                BitLen(d) <= LimbBits + 1)

\* the digit among the candidates that rt and dt, the leading bits of r and
\* d, leave (exact: dt is all of d)
DoQuotBetween(r, d, rt, dt, exact) ==
    CHOOSE t \in (IF exact THEN rt \div dt ELSE rt \div (dt + 1))
                     ..(IF rt \div dt < Base THEN rt \div dt ELSE Base - 1) :
        /\ BigCmp(BigMulSmall(d, t), r) <= 0
        /\ \/ t = (IF rt \div dt < Base THEN rt \div dt ELSE Base - 1)
           \/ BigCmp(BigMulSmall(d, t + 1), r) > 0

\* one step of the long division: the digit t of the quotient is known
DoDivDigit(a, d, i, q, r2, t) ==
    DivFrom(a, d, i - 1, <<t>> \o q,
            IF t = 0 THEN r2 ELSE BigSub(r2, BigMulSmall(d, t)))

\* long division by d > 0, one limb of a at a time from limb i down; q is the
\* quotient so far (most significant limb last), r the remainder so far
DoDivFrom(a, d, i, q, r) ==
    IF i = 0 THEN [q |-> Trim(q), r |-> r]
    ELSE DivDigit(a, d, i, q, Trim(<<a[i]>> \o r), QuotDigit(Trim(<<a[i]>> \o r), d))

\* long division by a single limb d > 0, the remainder r an integer
DoDivSmallFrom(a, d, i, q, r) ==
    IF i = 0 THEN [q |-> Trim(q), r |-> IF r = 0 THEN << >> ELSE <<r>>]
    ELSE DivSmallFrom(a, d, i - 1, <<(r * Base + a[i]) \div d>> \o q, (r * Base + a[i]) % d)

\* quotient and remainder of a by d > 0; the leading Len(d) - 1 limbs of a are
\* below d and start the remainder
DoBigDivMod(a, d) ==
    IF Len(a) < Len(d) THEN [q |-> << >>, r |-> a]
    ELSE IF Len(d) = 1 THEN DivSmallFrom(a, d[1], Len(a), << >>, 0)
    ELSE DivFrom(a, d, Len(a) - Len(d) + 1, << >>,
                 SubSeq(a, Len(a) - Len(d) + 2, Len(a)))

\* ------------------------------------------------------------------------
\* binary64: round to nearest, ties to even, MantBits significant bits.
\* n is the exact value truncated, sticky says bits were lost below it.
\* ------------------------------------------------------------------------
\* n rounded at bit s: q is n above bit s, c compares what is below with half
DoRoundAt(q, c, s, sticky) ==
    BigShl(IF c > 0 \/ (c = 0 /\ (sticky \/ Limb(q, 1) % 2 = 1))
           THEN BigAdd(q, <<1>>) ELSE q, s)

DoRoundNearestEven(n, sticky) ==
    IF BitLen(n) <= MantBits THEN n
    ELSE RoundAt(BigShr(n, BitLen(n) - MantBits),
                 BigCmp(BigLow(n, BitLen(n) - MantBits),
                        BigShl(<<1>>, BitLen(n) - MantBits - 1)),
                 BitLen(n) - MantBits, sticky)

\* the rounded quotient of a division
DoRoundQuotient(x) == RoundNearestEven(x.q, x.r # << >>)

\* the binary64 nearest to n / d (a decimal literal such as 0.35 = 35/100)
DoFromRatio(n, d) ==
    IF n = 0 THEN << >>
    ELSE RoundQuotient(BigDivMod(BigShl(BigFromInt(n), FracBits), BigFromInt(d)))

\* the binary64 written k/1000
DoFromMils(k) == FromRatio(k, 1000)

DoFAdd(a, b) ==
    IF a = << >> THEN b
    ELSE IF b = << >> THEN a
    ELSE RoundNearestEven(BigAdd(a, b), FALSE)

\* a - b for a >= b
DoFSub(a, b) ==
    IF b = << >> THEN a
    ELSE IF a = b THEN << >>
    ELSE RoundNearestEven(BigSub(a, b), FALSE)

DoFMul(a, b) ==
    IF a = << >> \/ b = << >> THEN << >>
    ELSE BigShr(RoundNearestEven(BigMul(a, b), FALSE), FracBits)

\* a / b for b > 0
DoFDiv(a, b) ==
    IF a = << >> \/ b = << >> THEN << >>
    ELSE RoundQuotient(BigDivMod(BigShl(a, FracBits), b))

DoFLess(a, b) == BigCmp(a, b) < 0
DoFLeq(a, b) == BigCmp(a, b) <= 0

\* Python round(x, 3) of a float x >= 0, in mils: the decimal with three
\* places nearest to the exact value of x, ties to the even one
DoRound3(x) ==
    IF x = << >> THEN 0
    ELSE CHOOSE r \in {
             IF c > 0 \/ (c = 0 /\ q % 2 = 1) THEN q + 1 ELSE q
             : q \in {BigToInt(BigShr(BigMulSmall(x, 1000), FracBits))},
               c \in {BigCmp(BigLow(BigMulSmall(x, 1000), FracBits),
                             BigShl(<<1>>, FracBits - 1))}} : TRUE

\* Python round(x, 2) of a float x >= 0, in hundredths
DoRound2(x) ==
    IF x = << >> THEN 0
    ELSE CHOOSE r \in {
             IF c > 0 \/ (c = 0 /\ q % 2 = 1) THEN q + 1 ELSE q
             : q \in {BigToInt(BigShr(BigMulSmall(x, 100), FracBits))},
               c \in {BigCmp(BigLow(BigMulSmall(x, 100), FracBits),
                             BigShl(<<1>>, FracBits - 1))}} : TRUE

\* ------------------------------------------------------------------------
\* Signed floats: [neg, mag] with mag a binary64 magnitude as above.
\* ------------------------------------------------------------------------
Abs(k) == IF k < 0 THEN 0 - k ELSE k

\* the float written k/1000, k of either sign
DoSFromMils(k) == [neg |-> k < 0, mag |-> FromMils(Abs(k))]

\* x + y
DoSAdd(x, y) ==
    IF x.neg = y.neg THEN [neg |-> x.neg, mag |-> FAdd(x.mag, y.mag)]
    ELSE IF FLeq(y.mag, x.mag)
    THEN [neg |-> x.neg /\ x.mag # y.mag, mag |-> FSub(x.mag, y.mag)]
    ELSE [neg |-> y.neg, mag |-> FSub(y.mag, x.mag)]

\* x < y
DoSLess(x, y) ==
    IF x.neg /\ ~y.neg THEN x.mag # << >> \/ y.mag # << >>
    ELSE IF ~x.neg /\ y.neg THEN FALSE
    ELSE IF x.neg THEN FLess(y.mag, x.mag)
    ELSE FLess(x.mag, y.mag)

\* round(x, 3) in mils
DoSRound3(x) == IF x.neg THEN 0 - Round3(x.mag) ELSE Round3(x.mag)

\* round(x, 2) in hundredths
DoSRound2(x) == IF x.neg THEN 0 - Round2(x.mag) ELSE Round2(x.mag)

\* ------------------------------------------------------------------------
\* Results of the analysis agents.  A result is a record
\*   [agent_type, confidence_score (mils), anomalies (sequence of
\*    [type, severity])];
\* the sequence stands for result["anomalies"]["items"].
\* ------------------------------------------------------------------------
Severities == {"high", "medium", "low"}

RECURSIVE AllAnomalies(_)
AllAnomalies(results) ==
    IF results = << >> THEN << >>
    ELSE Head(results).anomalies \o AllAnomalies(Tail(results))

CountSeverity(items, sev) == Cardinality({i \in 1..Len(items) : items[i].severity = sev})

\* ------------------------------------------------------------------------
\* CrossReferenceEngine
\* ------------------------------------------------------------------------
WEIGHTS ==
    [forensic_technical |-> 350, physical |-> 250,
     contextual |-> 200, ai_generation |-> 200]

DefaultWeight == 100

CONFIDENCE_THRESHOLD == 750

ForgedScoreLimit == 500

EmptyScore == 500

\* a variant of Weight that gives every agent type the same weight
UniformWeight(agent_type) == 250

\* self.WEIGHTS.get(agent_type, 0.1), in mils
Weight(agent_type) ==
    IF agent_type \in DOMAIN WEIGHTS THEN WEIGHTS[agent_type] ELSE DefaultWeight

\* the loop over agent_results: weighted_sum and total_weight after the
\* results from i on are added, in list order, to the floats ws and tw
DoAccumulate(results, i, ws, tw) ==
    IF i > Len(results) THEN [weighted_sum |-> ws, total_weight |-> tw]
    ELSE Accumulate(results, i + 1,
                    FAdd(ws, FMul(FromMils(results[i].confidence_score),
                                  FromMils(Weight(results[i].agent_type)))),
                    FAdd(tw, FromMils(Weight(results[i].agent_type))))

\* round(weighted_sum / total_weight, 3) if total_weight > 0 else 0.5
DoCombinedScore(results) == Quotient(Accumulate(results, 1, << >>, << >>))

DoQuotient(acc) ==
    IF acc.total_weight # << >>
    THEN Round3(FDiv(acc.weighted_sum, acc.total_weight))
    ELSE EmptyScore

\* a variant of Verdict that never decides by the high anomalies alone
VerdictByScore(combined_score, high_count) ==
    IF high_count >= 2 /\ combined_score < ForgedScoreLimit THEN "forged"
    ELSE IF combined_score >= CONFIDENCE_THRESHOLD /\ high_count = 0 THEN "authentic"
    ELSE "inconclusive"

\* a variant of Verdict that lets one high anomaly pass for "authentic"
VerdictWithOneHigh(combined_score, high_count) ==
    IF high_count >= 3 \/ (high_count >= 2 /\ combined_score < ForgedScoreLimit)
    THEN "forged"
    ELSE IF combined_score >= CONFIDENCE_THRESHOLD /\ high_count <= 1
    THEN "authentic"
    ELSE "inconclusive"

Verdict(combined_score, high_count) ==
    IF high_count >= 3 \/ (high_count >= 2 /\ combined_score < ForgedScoreLimit)
    THEN "forged"
    ELSE IF combined_score >= CONFIDENCE_THRESHOLD /\ high_count = 0
    THEN "authentic"
    ELSE "inconclusive"

\* CrossReferenceEngine.analyze past the case of no results
AnalyzeResults(agent_results) ==
    CHOOSE r \in {
        LET high_count   == CountSeverity(all_anomalies, "high")
            medium_count == CountSeverity(all_anomalies, "medium")
            total_count  == Len(all_anomalies)
        IN  [combined_score  |-> combined_score,
             final_verdict   |-> Verdict(combined_score, high_count),
             anomaly_summary |->
                 [total  |-> total_count,
                  high   |-> high_count,
                  medium |-> medium_count,
                  low    |-> total_count - high_count - medium_count]]
        : combined_score \in {CombinedScore(agent_results)},
          all_anomalies \in {AllAnomalies(agent_results)}} : TRUE

\* a variant of CrossReferenceAnalyze that scores no results as a sum of nothing
AnalyzeEmptyAsZero(agent_results) ==
    IF agent_results = << >>
    THEN [combined_score |-> 0, final_verdict |-> "inconclusive"]
    ELSE AnalyzeResults(agent_results)

\* CrossReferenceEngine.analyze
CrossReferenceAnalyze(agent_results) ==
    IF agent_results = << >>
    THEN [combined_score |-> EmptyScore, final_verdict |-> "inconclusive"]
    ELSE AnalyzeResults(agent_results)

\* ------------------------------------------------------------------------
\* RedTeamAgent.  A file is a record of what PIL reads from the bytes:
\*   [name, decodable, format, width, height, mode, size (len(file_bytes)), ...].
\* A challenge is [type, severity]; a blind spot is [agent, risk].
\* ------------------------------------------------------------------------
ELATypes == {"ELA", "ELA general"}

MetadataTypes == {"metadata"}

CloneTypes == {"clone_detection"}

FpAdjustment == 50

GapAdjustment == -30

GapLimit == 300

DisagreementLimit == 250

BlindSpotConfidence == 800

DefaultScore == 500

MinDimension == 200

MaxDimension == 5000

MinOf(S) == CHOOSE r \in {CHOOSE x \in T : \A y \in T : x <= y : T \in {S}} : TRUE

\* next(r for r in results if r["agent_type"] == agent_type): its index, 0 if none
FirstIndex(results, agent_type) ==
    LET hits == {i \in 1..Len(results) : results[i].agent_type = agent_type}
    IN  IF hits = {} THEN 0 ELSE MinOf(hits)

\* bpp = len(file_bytes) / pixels if pixels > 0 else 0;  bpp < 0.3
HighlyCompressed(file) ==
    LET pixels == file.width * file.height
    IN  IF pixels > 0 THEN 10 * file.size < 3 * pixels ELSE TRUE

_check_false_positives(results, file) ==
    LET f == FirstIndex(results, "forensic_technical")
    IN  IF f = 0 THEN [challenges |-> << >>, adjustment |-> << >>]
        ELSE
        LET items == results[f].anomalies
            ela   == \E i \in 1..Len(items) : items[i].type \in ELATypes
            meta  == \E i \in 1..Len(items) : items[i].type \in MetadataTypes
            fp    == /\ ela
                     /\ file.decodable
                     /\ file.format = "JPEG"
                     /\ HighlyCompressed(file)
        IN  [challenges |->
                (IF fp THEN <<[type |-> "false_positive_risk", severity |-> "medium"]>>
                 ELSE << >>)
                \o (IF meta THEN <<[type |-> "false_positive_risk", severity |-> "low"]>>
                    ELSE << >>),
             adjustment |-> IF fp THEN <<FpAdjustment>> ELSE << >>]

RECURSIVE SilentAgents(_)
SilentAgents(results) ==
    IF results = << >> THEN << >>
    ELSE (IF /\ Head(results).anomalies = << >>
             /\ Head(results).confidence_score > BlindSpotConfidence
          THEN <<[agent |-> Head(results).agent_type, risk |-> "false_negative"]>>
          ELSE << >>)
         \o SilentAgents(Tail(results))

_check_false_negatives(results, file) ==
    LET items == AllAnomalies(results)
    IN  [blind_spots |->
            SilentAgents(results)
            \o (IF \E i \in 1..Len(items) : items[i].type \in CloneTypes THEN << >>
                ELSE <<[agent |-> "system", risk |-> "missing_capability"]>>)
            \o (IF \E i \in 1..Len(results) : results[i].agent_type = "ai_generation"
                THEN << >>
                ELSE <<[agent |-> "system", risk |-> "missing_agent"]>>)]

\* scores = {r["agent_type"]: r.get("confidence_score", 0.5) for r in results}:
\* the last result of each agent type gives its score
Scores(results) ==
    [t \in {results[i].agent_type : i \in 1..Len(results)} |->
        results[MaxOf({i \in 1..Len(results) : results[i].agent_type = t})].confidence_score]

ScoreOf(scores, agent_type) ==
    IF agent_type \in DOMAIN scores THEN scores[agent_type] ELSE DefaultScore

\* hi - lo > limit on the floats written hi, lo and limit (mils), hi >= lo
DoFloatGapExceeds(hi, lo, limit) ==
    FLess(FromMils(limit), FSub(FromMils(hi), FromMils(lo)))

\* a variant of ConsistencyOf that raises the consistency gap with medium
\* severity
MildConsistencyOf(gap, dis) ==
    [challenges |->
        (IF gap THEN <<[type |-> "consistency_gap", severity |-> "medium"]>> ELSE << >>)
        \o (IF dis THEN <<[type |-> "cross_disagreement", severity |-> "medium"]>>
            ELSE << >>),
     adjustment |-> IF gap THEN <<GapAdjustment>> ELSE << >>]

ConsistencyOf(gap, dis) ==
    [challenges |->
        (IF gap THEN <<[type |-> "consistency_gap", severity |-> "high"]>> ELSE << >>)
        \o (IF dis THEN <<[type |-> "cross_disagreement", severity |-> "medium"]>>
            ELSE << >>),
     adjustment |-> IF gap THEN <<GapAdjustment>> ELSE << >>]

_check_cross_consistency(results) ==
    CHOOSE r \in {
        LET vals == {scores[t] : t \in DOMAIN scores}
            fs   == ScoreOf(scores, "forensic_technical")
            cs   == ScoreOf(scores, "contextual")
        IN  CHOOSE c \in {
                ConsistencyOf(gap, dis)
                : gap \in {/\ Cardinality(DOMAIN scores) >= 2
                           /\ FloatGapExceeds(MaxOf(vals), MinOf(vals), GapLimit)},
                  dis \in {FloatGapExceeds(Max2(fs, cs), MinOf({fs, cs}),
                                           DisagreementLimit)}} : TRUE
        : scores \in {Scores(results)}} : TRUE

_check_edge_cases(file, results) ==
    IF ~file.decodable
    THEN [challenges |-> <<[type |-> "parse_error", severity |-> "low"]>>,
          recommendations |-> << >>]
    ELSE [challenges |->
            (IF file.width < MinDimension \/ file.height < MinDimension
             THEN <<[type |-> "low_resolution", severity |-> "high"]>> ELSE << >>)
            \o (IF file.mode \in {"L", "LA"}
                THEN <<[type |-> "grayscale", severity |-> "medium"]>> ELSE << >>),
          recommendations |->
            IF file.width > MaxDimension \/ file.height > MaxDimension
            THEN <<"check_crop">> ELSE << >>]

ForgedChallengeScore == 700

\* a variant of _challenge_verdict that raises the challenge to an
\* "authentic" verdict with medium severity
mild_verdict_challenge(cross_ref, results) ==
    [challenges |->
        IF \/ /\ cross_ref.final_verdict = "authentic"
              /\ CountSeverity(AllAnomalies(results), "high") > 0
           \/ /\ cross_ref.final_verdict = "forged"
              /\ cross_ref.combined_score > ForgedChallengeScore
        THEN <<[type |-> "verdict_challenge", severity |-> "medium"]>> ELSE << >>]

\* a variant of _challenge_verdict that challenges a "forged" verdict from
\* the score 0.7 on
challenge_forged_at_limit(cross_ref, results) ==
    [challenges |->
        (IF /\ cross_ref.final_verdict = "authentic"
            /\ CountSeverity(AllAnomalies(results), "high") > 0
         THEN <<[type |-> "verdict_challenge", severity |-> "high"]>> ELSE << >>)
        \o (IF /\ cross_ref.final_verdict = "forged"
                /\ cross_ref.combined_score >= ForgedChallengeScore
            THEN <<[type |-> "verdict_challenge", severity |-> "medium"]>>
            ELSE << >>)]

_challenge_verdict(cross_ref, results) ==
    LET verdict    == cross_ref.final_verdict
        score      == cross_ref.combined_score
        total_high == CountSeverity(AllAnomalies(results), "high")
    IN  [challenges |->
            (IF verdict = "authentic" /\ total_high > 0
             THEN <<[type |-> "verdict_challenge", severity |-> "high"]>> ELSE << >>)
            \o (IF verdict = "forged" /\ score > ForgedChallengeScore
                THEN <<[type |-> "verdict_challenge", severity |-> "medium"]>>
                ELSE << >>)]

TrendWindow == 5

TrendLimit == 3

\* a variant of RecentChallenges that sums over every entry of the log
TotalChallenges(log) ==
    LET RECURSIVE Sum(_, _)
        Sum(from, to) ==
            IF from > to THEN 0
            ELSE IF from = to THEN log[from].challenges_count
            ELSE Sum(from, (from + to) \div 2) + Sum((from + to) \div 2 + 1, to)
    IN  Sum(1, Len(log))

\* sum(e["challenges_count"] for e in recent) over the last TrendWindow entries
RecentChallenges(log) ==
    LET RECURSIVE Sum(_)
        Sum(i) == IF i > Len(log) THEN 0 ELSE log[i].challenges_count + Sum(i + 1)
    IN  Sum(Len(log) - TrendWindow + 1)

_generate_recommendations(challenges, blind_spots, results, log) ==
    (IF CountSeverity(challenges, "high") > 0 THEN <<"hitl">> ELSE << >>)
    \o (IF Len(blind_spots) >= 2 THEN <<"expand_agents">> ELSE << >>)
    \o (IF Len(log) >= TrendWindow /\ RecentChallenges(log) > TrendLimit * TrendWindow
        THEN <<"over_sensitive">> ELSE << >>)

\* a variant of _calc_threat_level that looks at the high challenges alone
threat_by_high_count(challenges, blind_spots) ==
    LET high == CountSeverity(challenges, "high")
    IN  IF high >= 2 THEN "high" ELSE IF high >= 1 THEN "medium" ELSE "low"

\* a variant of _calc_threat_level that compares the total with == for >=
threat_at_exact_totals(challenges, blind_spots) ==
    LET high  == CountSeverity(challenges, "high")
        total == Len(challenges) + Len(blind_spots)
    IN  IF high >= 2 \/ total = 5 THEN "high"
        ELSE IF high >= 1 \/ total = 3 THEN "medium"
        ELSE "low"

_calc_threat_level(challenges, blind_spots) ==
    LET high  == CountSeverity(challenges, "high")
        total == Len(challenges) + Len(blind_spots)
    IN  IF high >= 2 \/ total >= 5 THEN "high"
        ELSE IF high >= 1 \/ total >= 3 THEN "medium"
        ELSE "low"

\* sum(confidence_adjustments) / len(confidence_adjustments), as a float
DoSSum(adjs) ==
    IF adjs = << >> THEN SFromMils(0)
    ELSE SAdd(SSum(SubSeq(adjs, 1, Len(adjs) - 1)), SFromMils(adjs[Len(adjs)]))

\* a variant of DoRoundedAdjustment that divides by the number of modules
\* that can propose an adjustment
AdjustmentOverModules(adjs) ==
    IF adjs = << >> THEN 0 ELSE SRound3(SDivInt(SSum(adjs), 2))

\* round(adj, 3) in mils, adj = 0 when no module proposed an adjustment
DoRoundedAdjustment(adjs) ==
    IF adjs = << >> THEN 0 ELSE SRound3(SDivInt(SSum(adjs), Len(adjs)))

\* x / n for an integer n > 0
DoSDivInt(x, n) == [neg |-> x.neg, mag |-> FDiv(x.mag, FromRatio(n, 1))]

\* a variant of RecordEntry that overwrites the newest entry
ReplaceLast(log, entry) ==
    IF log = << >> THEN <<entry>> ELSE [log EXCEPT ![Len(log)] = entry]

\* a variant of RecordEntry that keeps the newest TrendWindow entries
KeepRecent(log, entry) ==
    IF Len(log) < TrendWindow THEN Append(log, entry)
    ELSE SubSeq(Append(log, entry), Len(log) - TrendWindow + 2, Len(log) + 1)

\* self.learning_log.append(entry)
\* a variant of RecordEntry in which the entry goes to a list of the
\* instance and the list of the class stays as it is
RecordOnInstance(log, entry) == log

RecordEntry(log, entry) == Append(log, entry)

\* RedTeamAgent.challenge from the five modules' results on: the dict it
\* returns and the entry it appends to learning_log (log is the list before
\* the call)
Critique(file, agent_results, log, fp_checks, fn_checks, consistency, edge, meta, adj) ==
    LET challenges  == fp_checks.challenges \o consistency.challenges
                       \o edge.challenges \o meta.challenges
        blind_spots == fn_checks.blind_spots
        entry       == [file_hash             |-> file.name,
                        challenges_count      |-> Len(challenges),
                        blind_spots_count     |-> Len(blind_spots),
                        confidence_adjustment |-> adj,
                        verdict_challenged    |-> Len(meta.challenges) > 0]
    IN  [entry  |-> entry,
         result |->
            [agent_type            |-> "red_team",
             challenges            |-> challenges,
             blind_spots           |-> blind_spots,
             recommendations       |->
                 edge.recommendations
                 \o _generate_recommendations(challenges, blind_spots, agent_results, log),
             confidence_adjustment |-> adj,
             threat_level          |-> _calc_threat_level(challenges, blind_spots),
             learning_log_size     |-> Len(RecordEntry(log, entry))]]

\* RedTeamAgent.challenge
challenge(file, agent_results, cross_reference, log) ==
    CHOOSE r \in {
        CHOOSE c \in {
            Critique(file, agent_results, log, fp_checks, fn_checks, consistency,
                     edge, meta, adj)
            : adj \in {RoundedAdjustment(fp_checks.adjustment
                                         \o consistency.adjustment)}} : TRUE
        : fp_checks   \in {_check_false_positives(agent_results, file)},
          fn_checks   \in {_check_false_negatives(agent_results, file)},
          consistency \in {_check_cross_consistency(agent_results)},
          edge        \in {_check_edge_cases(file, agent_results)},
          meta        \in {_challenge_verdict(cross_reference, agent_results)}} : TRUE

\* ------------------------------------------------------------------------
\* Orchestrator
\* ------------------------------------------------------------------------
MinScore == 50

MaxScore == 990

AuthenticScore == 750

\* a variant of the adjusted score that is not clamped
UnclampedScore(base_score, adj) == SAdd(SFromMils(base_score), SFromMils(adj))

\* max(0.05, min(0.99, base_score + adj)), a float
DoAdjustedScore(base_score, adj) ==
    SMax(SFromMils(MinScore),
         SMin(SFromMils(MaxScore), SAdd(SFromMils(base_score), SFromMils(adj))))

\* Python's min(x, y) and max(x, y): y when it is less (greater), else x
DoSMin(x, y) == IF SLess(y, x) THEN y ELSE x

DoSMax(x, y) == IF SLess(x, y) THEN y ELSE x

\* a variant of high_challenges that keeps the challenges of high severity only
high_severity_challenges(red_team) ==
    {i \in 1..Len(red_team.challenges) :
        /\ red_team.challenges[i].type = "verdict_challenge"
        /\ red_team.challenges[i].severity = "high"}

\* [c for c in red_team.get("challenges", []) if c.get("type") == "verdict_challenge"],
\* as the positions of its members
high_challenges(red_team) ==
    {i \in 1..Len(red_team.challenges) :
        red_team.challenges[i].type = "verdict_challenge"}

\* a variant of adjusted_verdict that does not look at the adjusted score
unscored_verdict(challenged, base_verdict, adjusted_score) ==
    IF challenged /\ base_verdict \in {"authentic", "forged"} THEN "inconclusive"
    ELSE IF base_verdict \in {"authentic", "forged"} THEN base_verdict
    ELSE "inconclusive"

\* a variant of adjusted_verdict that takes an adjusted score of 0.75 or more
\* for "authentic" unless the base verdict is "forged"
rescored_verdict(challenged, base_verdict, adjusted_score) ==
    IF challenged /\ base_verdict \in {"authentic", "forged"} THEN "inconclusive"
    ELSE IF base_verdict = "forged" THEN "forged"
    ELSE IF ~SLess(adjusted_score, SFromMils(AuthenticScore)) THEN "authentic"
    ELSE "inconclusive"

adjusted_verdict(challenged, base_verdict, adjusted_score) ==
    IF challenged /\ base_verdict \in {"authentic", "forged"} THEN "inconclusive"
    ELSE IF ~SLess(adjusted_score, SFromMils(AuthenticScore)) /\ base_verdict = "authentic"
    THEN "authentic"
    ELSE IF base_verdict = "forged" THEN "forged"
    ELSE "inconclusive"

\* a variant of hitl that does not count the blind spots
hitl_without_blind_spots(verdict, threat, blind_spots) ==
    verdict = "inconclusive" \/ threat \in {"high", "medium"}

\* a variant of hitl that asks for a human on the first blind spot
hitl_on_any_blind_spot(verdict, threat, blind_spots) ==
    \/ verdict = "inconclusive"
    \/ threat \in {"high", "medium"}
    \/ Len(blind_spots) >= 1

hitl(verdict, threat, blind_spots) ==
    \/ verdict = "inconclusive"
    \/ threat \in {"high", "medium"}
    \/ Len(blind_spots) >= 2

FinalVerdictOf(verdict, adjusted_score, red_team) ==
    [verdict       |-> verdict,
     confidence    |-> SRound3(adjusted_score),
     hitl_required |-> hitl(verdict, red_team.threat_level, red_team.blind_spots)]

_final_verdict(cross_ref, red_team) ==
    CHOOSE r \in {
        FinalVerdictOf(adjusted_verdict(high_challenges(red_team) # {},
                                        cross_ref.final_verdict, adjusted_score),
                       adjusted_score, red_team)
        \* base_score + adj, clamped
        : adjusted_score \in {AdjustedScore(cross_ref.combined_score,
                                            red_team.confidence_adjustment)}} : TRUE

\* a variant of _select_agents that selects every agent for every media type
select_all_agents(media_type) ==
    <<"forensic_technical", "physical", "contextual", "ai_generation">>

\* a variant of _select_agents that selects the AI-generation agent for
\* video too
select_ai_for_video(media_type) ==
    IF media_type \in {"image", "video"}
    THEN <<"forensic_technical", "physical", "contextual", "ai_generation">>
    ELSE IF media_type = "document" THEN <<"forensic_technical", "contextual">>
    ELSE <<"forensic_technical">>

_select_agents(media_type) ==
    IF media_type = "image"
    THEN <<"forensic_technical", "physical", "contextual", "ai_generation">>
    ELSE IF media_type = "video" THEN <<"forensic_technical", "physical", "contextual">>
    ELSE IF media_type = "audio" THEN <<"forensic_technical">>
    ELSE IF media_type = "document" THEN <<"forensic_technical", "contextual">>
    ELSE <<"forensic_technical">>

\* ------------------------------------------------------------------------
\* ForensicTechnicalAgent.  Beyond what RedTeamAgent reads, a file record says
\* what the analyses measure on the decoded image:
\*   has_exif, software_edit, dates_differ (EXIF), ela_regions (grid regions
\*   above the ELA limits), ela_std_high (std_error > 20), q_std_high
\*   (q_std > 25).
\* ------------------------------------------------------------------------
Anomaly(type, severity) == [type |-> type, severity |-> severity]

RECURSIVE Repeat(_, _)
Repeat(x, n) == IF n = 0 THEN << >> ELSE <<x>> \o Repeat(x, n - 1)

_analyze_exif(file) ==
    IF ~file.has_exif THEN <<Anomaly("metadata", "medium")>>
    ELSE (IF file.software_edit THEN <<Anomaly("editing software", "medium")>> ELSE << >>)
         \o (IF file.dates_differ THEN <<Anomaly("dates", "high")>> ELSE << >>)

_analyze_ela(file) ==
    Repeat(Anomaly("ELA", "high"), file.ela_regions)
    \o (IF file.ela_std_high THEN <<Anomaly("ELA general", "medium")>> ELSE << >>)

\* bytes_per_pixel < 0.1 is 10 * len(file_bytes) < pixels
_analyze_compression(file) ==
    (IF file.format = "JPEG" /\ file.q_std_high
     THEN <<Anomaly("double compression", "medium")>> ELSE << >>)
    \o (IF /\ file.width * file.height > 0
           /\ 10 * file.size < file.width * file.height
           /\ file.format = "JPEG"
        THEN <<Anomaly("compression", "low")>> ELSE << >>)

ai_dimensions ==
    {<<512, 512>>, <<768, 768>>, <<1024, 1024>>, <<1024, 1792>>, <<1792, 1024>>,
     <<512, 768>>, <<768, 512>>, <<1024, 768>>, <<768, 1024>>}

_analyze_dimensions(file) ==
    IF <<file.width, file.height>> \in ai_dimensions
    THEN <<Anomaly("dimensions", "medium")>> ELSE << >>

severity_scores == [high |-> 150, medium |-> 80, low |-> 30]

CleanConfidence == 920

MinConfidence == 150

UndecodableConfidence == 500

\* sum(severity_scores.get(a["severity"], 0) for a in anomalies) from
\* anomaly i on, added in list order to the float acc
DoPenaltyFrom(anomalies, i, acc) ==
    IF i > Len(anomalies) THEN acc
    ELSE PenaltyFrom(anomalies, i + 1,
                     FAdd(acc, FromMils(severity_scores[anomalies[i].severity])))

\* round(0.92 - total_penalty, 2), in hundredths
RoundedConfidence(anomalies) ==
    SRound2(SAdd(SFromMils(CleanConfidence),
                 [neg |-> TRUE, mag |-> PenaltyFrom(anomalies, 1, << >>)]))

\* a variant of _calculate_confidence without the floor of 0.15
unfloored_confidence(anomalies) ==
    IF anomalies = << >> THEN CleanConfidence ELSE 10 * RoundedConfidence(anomalies)

\* max(0.15, round(0.92 - total_penalty, 2)) in mils; the floats written
\* with two decimals are ordered as their hundredths are
_calculate_confidence(anomalies) ==
    IF anomalies = << >> THEN CleanConfidence
    ELSE Max2(MinConfidence, 10 * RoundedConfidence(anomalies))

_result(agent_type, confidence, anomalies) ==
    [agent_type |-> agent_type, confidence_score |-> confidence, anomalies |-> anomalies]

\* ForensicTechnicalAgent.analyze raises: Image.open returned an image and
\* img._getexif(), called outside any try, raises
ForensicRaises(file) == file.decodable /\ file.exif_raises

\* ForensicTechnicalAgent.analyze where it returns
ForensicAnalyze(file) ==
    IF ~file.decodable
    THEN _result("forensic_technical", UndecodableConfidence,
                 <<Anomaly("format", "medium")>>)
    ELSE LET anomalies == _analyze_exif(file) \o _analyze_ela(file)
                          \o _analyze_compression(file) \o _analyze_dimensions(file)
         IN  _result("forensic_technical", _calculate_confidence(anomalies), anomalies)

\* ------------------------------------------------------------------------
\* The vision agents return their mock result when no API answers, and
\* otherwise what the API's JSON says.
\* ------------------------------------------------------------------------
PhysicalMock ==
    _result("physical", 680,
            <<Anomaly("shadows", "high"), Anomaly("perspective", "medium")>>)

ContextualMock == _result("contextual", 650, <<Anomaly("period", "medium")>>)

AIGenerationMock == _result("ai_generation", 700, <<Anomaly("AI check", "low")>>)

\* ------------------------------------------------------------------------
\* Num: the operation named op applied to the arguments x.  v \in {x} names
\* the value of x, so that the operation starts from values
\* ------------------------------------------------------------------------
Num(op, x) ==
    CHOOSE y \in {
        CASE op = "DivSmallFrom" -> DoDivSmallFrom(v[1], v[2], v[3], v[4], v[5])
          [] op = "DivFrom" -> DoDivFrom(v[1], v[2], v[3], v[4], v[5])
          [] op = "DivDigit" -> DoDivDigit(v[1], v[2], v[3], v[4], v[5], v[6])
          [] op = "QuotDigit" -> DoQuotDigit(v[1], v[2])
          [] op = "QuotBetween" -> DoQuotBetween(v[1], v[2], v[3], v[4], v[5])
          [] op = "RoundAt" -> DoRoundAt(v[1], v[2], v[3], v[4])
          [] op = "RoundQuotient" -> DoRoundQuotient(v[1])
          [] op = "MulFrom" -> DoMulFrom(v[1], v[2], v[3], v[4])
          [] op = "RoundNearestEven" -> DoRoundNearestEven(v[1], v[2])
          [] op = "FromRatio" -> DoFromRatio(v[1], v[2])
          [] op = "FromMils" -> DoFromMils(v[1])
          [] op = "BigDivMod" -> DoBigDivMod(v[1], v[2])
          [] op = "FAdd" -> DoFAdd(v[1], v[2])
          [] op = "FMul" -> DoFMul(v[1], v[2])
          [] op = "BigMul" -> DoBigMul(v[1], v[2])
          [] op = "FSub" -> DoFSub(v[1], v[2])
          [] op = "FDiv" -> DoFDiv(v[1], v[2])
          [] op = "Round3" -> DoRound3(v[1])
          [] op = "FLess" -> DoFLess(v[1], v[2])
          [] op = "FLeq" -> DoFLeq(v[1], v[2])
          [] op = "SFromMils" -> DoSFromMils(v[1])
          [] op = "SAdd" -> DoSAdd(v[1], v[2])
          [] op = "SLess" -> DoSLess(v[1], v[2])
          [] op = "SRound3" -> DoSRound3(v[1])
          [] op = "Accumulate" -> DoAccumulate(v[1], v[2], v[3], v[4])
          [] op = "CombinedScore" -> DoCombinedScore(v[1])
          [] op = "Quotient" -> DoQuotient(v[1])
          [] op = "FloatGapExceeds" -> DoFloatGapExceeds(v[1], v[2], v[3])
          [] op = "SSum" -> DoSSum(v[1])
          [] op = "RoundedAdjustment" -> DoRoundedAdjustment(v[1])
          [] op = "SDivInt" -> DoSDivInt(v[1], v[2])
          [] op = "AdjustedScore" -> DoAdjustedScore(v[1], v[2])
          [] op = "SMin" -> DoSMin(v[1], v[2])
          [] op = "SMax" -> DoSMax(v[1], v[2])
          [] op = "Round2" -> DoRound2(v[1])
          [] op = "SRound2" -> DoSRound2(v[1])
          [] op = "PenaltyFrom" -> DoPenaltyFrom(v[1], v[2], v[3])
        : v \in {x}} : TRUE

\* ------------------------------------------------------------------------
\* Inputs of the runs
\* ------------------------------------------------------------------------
MediaTypes == {"image", "video", "audio", "document", "other"}

Providers == {"forensic_technical", "physical", "contextual", "ai_generation"}

File(name, decodable, format, width, height, mode, size, exif, ela_regions, flags) ==
    [name |-> name, decodable |-> decodable, format |-> format,
     width |-> width, height |-> height, mode |-> mode, size |-> size,
     exif_raises   |-> exif = "unreadable",
     has_exif      |-> exif # "none",
     software_edit |-> exif = "edited",
     dates_differ  |-> exif = "edited",
     ela_regions   |-> ela_regions,
     ela_std_high  |-> "ela_std" \in flags,
     q_std_high    |-> "q_std" \in flags]

\* bytes no image decoder opens, a camera JPEG, a JPEG passed through a
\* messenger, a small grayscale scan, an edited JPEG, a PNG cut off behind
\* its header
Files ==
    {File("undecodable", FALSE, "none", 0, 0, "none", 52000, "none", 0, {}),
     File("camera", TRUE, "JPEG", 4000, 3000, "RGB", 3600000, "camera", 0, {}),
     File("shared", TRUE, "JPEG", 1280, 960, "RGB", 200000, "none", 2, {}),
     File("scan", TRUE, "PNG", 150, 150, "L", 9000, "none", 0, {}),
     File("edited", TRUE, "JPEG", 6000, 4000, "RGB", 9000000, "edited", 1, {"q_std"}),
     File("truncated", TRUE, "PNG", 800, 600, "RGB", 40000, "unreadable", 0, {})}

\* what a provider's analyze can return for the file
ProviderResults(provider, file) ==
    IF provider = "forensic_technical" THEN {ForensicAnalyze(file)}
    ELSE IF provider = "physical"
    THEN {PhysicalMock,
          _result("physical", 950, << >>),
          _result("physical", 800, <<Anomaly("clone_detection", "medium")>>),
          _result("physical", 900,
                  <<Anomaly("shadows", "high"), Anomaly("lighting", "high"),
                    Anomaly("reflections", "high")>>)}
    ELSE IF provider = "contextual"
    THEN {ContextualMock, _result("contextual", 900, << >>)}
    ELSE {AIGenerationMock,
          _result("ai_generation", 970, << >>),
          _result("ai_generation", 150,
                  <<Anomaly("AI Generated", "high"), Anomaly("hands", "medium")>>)}

Range(seq) == {seq[i] : i \in 1..Len(seq)}

None == [none |-> TRUE]

Idle == [state |-> "idle"]
Pending == [state |-> "pending"]
Raised == [state |-> "raised"]
Returned(result) == [state |-> "returned", result |-> result]

\* ------------------------------------------------------------------------
\* State of one Orchestrator.analyze call and of the RedTeamAgent class
\* ------------------------------------------------------------------------
VARIABLES
    media_type,       \* argument of analyze
    file,             \* the file behind file_bytes
    pc,               \* the statement analyze is at
    tasks,            \* per provider: the state of its analyze coroutine
    calls,            \* per provider: how often its analyze was invoked
    agent_results,    \* the results kept after gather
    initial_cross,    \* CrossReferenceEngine.analyze's result
    red_team_result,  \* RedTeamAgent.challenge's result
    response,         \* what analyze returns
    learning_log,     \* RedTeamAgent.learning_log (class attribute)
    reordered,        \* the results in another order
    reordered_cross,  \* CrossReferenceEngine.analyze's result for them
    runs,             \* the calls of analyze under way side by side
    completed         \* the providers in the order they returned or raised,
                      \* kept in the runs that watch that order

vars == <<media_type, file, pc, tasks, calls, agent_results, initial_cross,
          red_team_result, response, learning_log, reordered, reordered_cross, runs,
          completed>>

\* the order of completion is not watched
Unwatched == [watched |-> FALSE, order |-> << >>]

\* provider p has returned or raised
Settled(p) ==
    IF completed.watched THEN [completed EXCEPT !.order = Append(@, p)] ELSE completed

Init ==
    /\ runs = << >>
    /\ completed = Unwatched
    /\ media_type \in MediaTypes
    /\ file \in Files
    /\ pc = "start"
    /\ tasks = [p \in Providers |-> Idle]
    /\ calls = [p \in Providers |-> 0]
    /\ agent_results = << >>
    /\ initial_cross = None
    /\ red_team_result = None
    /\ response = None
    /\ learning_log = << >>
    /\ reordered = << >>
    /\ reordered_cross = None

\* agents = self._select_agents(media_type); tasks = [agent.analyze(...) ...]
Start ==
    /\ UNCHANGED <<runs, completed>>
    /\ pc = "start"
    /\ LET agents == _select_agents(media_type)
       IN  /\ tasks' = [p \in Providers |-> IF p \in Range(agents) THEN Pending ELSE Idle]
           /\ calls' = [p \in Providers |->
                           calls[p] + Cardinality({i \in 1..Len(agents) : agents[i] = p})]
    /\ pc' = "gather"
    /\ UNCHANGED <<media_type, file, agent_results, initial_cross, red_team_result,
                   response, learning_log, reordered, reordered_cross>>

\* a provider's analyze returns its result
Return(p) ==
    /\ UNCHANGED runs
    /\ completed' = Settled(p)
    /\ pc = "gather"
    /\ tasks[p] = Pending
    /\ p = "forensic_technical" => ~ForensicRaises(file)
    /\ \E r \in ProviderResults(p, file) : tasks' = [tasks EXCEPT ![p] = Returned(r)]
    /\ UNCHANGED <<media_type, file, pc, calls, agent_results, initial_cross,
                   red_team_result, response, learning_log, reordered, reordered_cross>>

\* a provider's analyze raises: a vision agent at any time, the forensic agent
\* when the file makes it
Raise(p) ==
    /\ UNCHANGED runs
    /\ completed' = Settled(p)
    /\ pc = "gather"
    /\ tasks[p] = Pending
    /\ p = "forensic_technical" => ForensicRaises(file)
    /\ tasks' = [tasks EXCEPT ![p] = Raised]
    /\ UNCHANGED <<media_type, file, pc, calls, agent_results, initial_cross,
                   red_team_result, response, learning_log, reordered, reordered_cross>>

\* a variant of KeepResults that keeps nothing once an agent has raised
KeepUnlessRaised(agents, t) ==
    IF \E i \in 1..Len(agents) : t[agents[i]].state = "raised" THEN << >>
    ELSE [i \in 1..Len(agents) |-> t[agents[i]].result]

\* a variant of KeepResults that keeps the results in the order in which the
\* agents returned
KeepAsCompleted(agents, t) ==
    LET RECURSIVE Keep(_)
        Keep(i) ==
            IF i > Len(completed.order) THEN << >>
            ELSE (IF t[completed.order[i]].state = "returned"
                  THEN <<t[completed.order[i]].result>>
                  ELSE << >>) \o Keep(i + 1)
    IN  Keep(1)

\* [r for r in raw_results if isinstance(r, dict)], raw_results in the order
\* of agents
KeepResults(agents, t) ==
    LET RECURSIVE Keep(_)
        Keep(i) ==
            IF i > Len(agents) THEN << >>
            ELSE (IF t[agents[i]].state = "returned" THEN <<t[agents[i]].result>>
                  ELSE << >>) \o Keep(i + 1)
    IN  Keep(1)

\* a variant of Gather that goes on while agents are still at work
GatherEarly ==
    /\ UNCHANGED <<runs, completed>>
    /\ pc = "gather"
    /\ agent_results' = KeepResults(_select_agents(media_type), tasks)
    /\ pc' = "cross"
    /\ UNCHANGED <<media_type, file, tasks, calls, initial_cross, red_team_result,
                   response, learning_log, reordered, reordered_cross>>

\* asyncio.gather(*tasks, return_exceptions=True) completes
Gather ==
    /\ UNCHANGED <<runs, completed>>
    /\ pc = "gather"
    /\ \A p \in Providers : tasks[p] # Pending
    /\ agent_results' = KeepResults(_select_agents(media_type), tasks)
    /\ pc' = "cross"
    /\ UNCHANGED <<media_type, file, tasks, calls, initial_cross, red_team_result,
                   response, learning_log, reordered, reordered_cross>>

CrossReference ==
    /\ UNCHANGED <<runs, completed>>
    /\ pc = "cross"
    /\ initial_cross' = CrossReferenceAnalyze(agent_results)
    /\ pc' = "red_team"
    /\ UNCHANGED <<media_type, file, tasks, calls, agent_results, red_team_result,
                   response, learning_log, reordered, reordered_cross>>

RedTeam ==
    /\ UNCHANGED <<runs, completed>>
    /\ pc = "red_team"
    /\ \E c \in {challenge(file, agent_results, initial_cross, learning_log)} :
           /\ red_team_result' = c.result
           /\ learning_log' = RecordEntry(learning_log, c.entry)
    /\ pc' = "verdict"
    /\ UNCHANGED <<media_type, file, tasks, calls, agent_results, initial_cross,
                   response, reordered, reordered_cross>>

FinalVerdict ==
    /\ UNCHANGED <<runs, completed>>
    /\ pc = "verdict"
    /\ \E final \in {_final_verdict(initial_cross, red_team_result)} :
           response' = [agent_results    |-> agent_results,
                        cross_reference  |-> initial_cross,
                        red_team         |-> red_team_result,
                        verdict          |-> final.verdict,
                        confidence_score |-> final.confidence,
                        hitl_required    |-> final.hitl_required]
    /\ pc' = "done"
    /\ UNCHANGED <<media_type, file, tasks, calls, agent_results, initial_cross,
                   red_team_result, learning_log, reordered, reordered_cross>>

Next ==
    \/ Start
    \/ \E p \in Providers : Raise(p)
    \/ \E p \in Providers : Return(p)
    \/ Gather
    \/ CrossReference
    \/ RedTeam
    \/ FinalVerdict

Spec == Init /\ [][Next]_vars

\* every coroutine of the event loop runs on: an agent's analyze returns or
\* raises, and analyze goes on to its next statement
SpecFair == Spec /\ WF_vars(Next)

\* ------------------------------------------------------------------------
\* Properties of Orchestrator.analyze (Spec, SpecFair)
\* ------------------------------------------------------------------------

\* the agents the claim names for a media type
ClaimedSelection(kind) ==
    CASE kind = "image" -> {"forensic_technical", "physical", "contextual", "ai_generation"}
      [] kind = "video" -> {"forensic_technical", "physical", "contextual"}
      [] kind = "audio" -> {"forensic_technical"}
      [] kind = "document" -> {"forensic_technical", "contextual"}
      [] OTHER -> {"forensic_technical"}

\* C8: the agents selected depend on the media type alone (image: forensic,
\* physical, contextual, ai_generation; video: forensic, physical, contextual;
\* audio: forensic; document: forensic, contextual; any other: forensic), and
\* in a run exactly the selected agents are invoked, each once.
C8_SelectedAgentsInvokedOnce ==
    /\ pc = "start" => \A p \in Providers : calls[p] = 0 /\ tasks[p] = Idle
    /\ pc # "start"
       => \A p \in Providers :
              /\ calls[p] = IF p \in ClaimedSelection(media_type) THEN 1 ELSE 0
              /\ tasks[p] = Idle <=> p \notin ClaimedSelection(media_type)

\* a finished run on a document: two agents invoked once, two never
C8_Witness ==
    /\ pc = "done"
    /\ media_type = "document"
    /\ calls["forensic_technical"] = 1 /\ calls["contextual"] = 1
    /\ calls["physical"] = 0 /\ calls["ai_generation"] = 0
    /\ Len(response.agent_results) = 2

\* the results returned are those of the agents that did not raise, one each
OpinionsOfReturned ==
    /\ Len(response.agent_results)
           = Cardinality({p \in Providers : tasks[p].state = "returned"})
    /\ \A p \in Providers :
           IF tasks[p].state = "returned"
           THEN Cardinality({i \in 1..Len(response.agent_results) :
                                response.agent_results[i] = tasks[p].result}) = 1
           ELSE \A i \in 1..Len(response.agent_results) :
                    response.agent_results[i].agent_type # p

\* C9: whichever selected agents raise, the run completes and returns a
\* result whose agent_results are exactly the results of the agents that did
\* not raise; no agent is invoked a second time.
C9_RaisingAgentsAreDropped ==
    /\ [](pc = "done" => response # None /\ OpinionsOfReturned)
    /\ [](\A p \in Providers : calls[p] <= 1)
    /\ <>(pc = "done")

\* a finished run on an image in which two of the four agents raised
C9_Witness ==
    /\ pc = "done"
    /\ media_type = "image"
    /\ tasks["forensic_technical"] = Raised
    /\ tasks["contextual"] = Raised
    /\ tasks["physical"].state = "returned"
    /\ Len(response.agent_results) = 2
    /\ calls["forensic_technical"] = 1

\* C10: when every selected agent raised, CrossReferenceEngine.analyze gives
\* combined_score 0.5 and verdict inconclusive, RedTeamAgent.challenge
\* completes, and the run returns verdict inconclusive with hitl_required.
C10_EmptyOpinionSet ==
    /\ []((pc \in {"red_team", "verdict", "done"} /\ agent_results = << >>)
          => /\ initial_cross.combined_score = 500
             /\ initial_cross.final_verdict = "inconclusive")
    /\ []((pc = "done" /\ agent_results = << >>)
          => /\ red_team_result # None
             /\ response.red_team = red_team_result
             /\ response.verdict = "inconclusive"
             /\ response.hitl_required)
    /\ ((pc = "cross" /\ agent_results = << >>) ~> pc = "done")

\* a finished run on an image in which all four agents raised
C10_Witness ==
    /\ pc = "done"
    /\ media_type = "image"
    /\ \A p \in Providers : tasks[p] = Raised
    /\ response.agent_results = << >>
    /\ response.cross_reference.combined_score = 500
    /\ response.verdict = "inconclusive"
    /\ response.hitl_required

\* every selected agent has returned or raised
AllSettled ==
    \A p \in Range(_select_agents(media_type)) : tasks[p].state \in {"returned", "raised"}

\* the stages that have run, read off the state
StagesRun ==
    /\ pc \in {"cross", "red_team", "verdict", "done"} => AllSettled
    /\ initial_cross # None <=> pc \in {"red_team", "verdict", "done"}
    /\ red_team_result # None <=> pc \in {"verdict", "done"}
    /\ response # None <=> pc = "done"

\* a step that starts a stage starts it from the results of the stages before
StageStep ==
    /\ initial_cross' # initial_cross
       => /\ AllSettled
          /\ red_team_result = None /\ response = None
          /\ initial_cross' = CrossReferenceAnalyze(agent_results)
    /\ red_team_result' # red_team_result
       => /\ initial_cross # None /\ initial_cross' = initial_cross
          /\ response = None
          /\ agent_results' = agent_results
          /\ red_team_result'
                 = challenge(file, agent_results, initial_cross, learning_log).result
    /\ response' # response
       => /\ red_team_result # None /\ red_team_result' = red_team_result
          /\ initial_cross' = initial_cross
          /\ response'.cross_reference = initial_cross
          /\ response'.red_team = red_team_result
          /\ response'.agent_results = agent_results
          /\ response'.verdict = _final_verdict(initial_cross, red_team_result).verdict
          /\ pc' = "done"

\* C11: in a run of analyze, CrossReferenceEngine.analyze starts only when
\* every selected agent has returned or raised; RedTeamAgent.challenge starts
\* only when the cross reference has its result, and is given that result
\* and the results kept; _final_verdict runs only when the critique has
\* returned; analyze returns only with the final verdict computed.
C11_StagesInOrder == []StagesRun /\ [][StageStep]_vars

\* a finished run in which one agent raised and the stages left their results
C11_Witness ==
    /\ pc = "done"
    /\ media_type = "video"
    /\ tasks["physical"] = Raised
    /\ Len(agent_results) = 2
    /\ response.cross_reference = initial_cross
    /\ response.red_team = red_team_result
    /\ red_team_result.learning_log_size = 1

\* the verdict_challenge challenges of the critique in hand
VerdictChallengesRaised ==
    {i \in 1..Len(red_team_result.challenges) :
        red_team_result.challenges[i].type = "verdict_challenge"}

\* C26: in a run of analyze a preliminary verdict "authentic" comes with no
\* anomaly of high severity among the results kept, so the critique never
\* challenges an "authentic" verdict: every verdict_challenge of a run has
\* medium severity and comes with a preliminary verdict "forged".
C26_AuthenticIsNeverChallenged ==
    /\ initial_cross # None /\ initial_cross.final_verdict = "authentic"
           => CountSeverity(AllAnomalies(agent_results), "high") = 0
    /\ red_team_result # None
           => \A i \in VerdictChallengesRaised :
                  /\ red_team_result.challenges[i].severity = "medium"
                  /\ initial_cross.final_verdict = "forged"

\* a finished run whose "forged" verdict was challenged, and a result kept
\* with anomalies of high severity
C26_Witness ==
    /\ pc = "done"
    /\ VerdictChallengesRaised # {}
    /\ initial_cross.final_verdict = "forged"
    /\ CountSeverity(AllAnomalies(agent_results), "high") >= 3

\* some anomaly of the results kept names clone detection
CloneDetectionNamed ==
    \E i \in 1..Len(AllAnomalies(agent_results)) :
        AllAnomalies(agent_results)[i].type \in CloneTypes

BlindSpotRisks ==
    {red_team_result.blind_spots[i].risk : i \in 1..Len(red_team_result.blind_spots)}

\* C27: a run on a media type other than "image" selects no AI-generation
\* agent; unless an anomaly names clone detection, its critique holds the
\* blind spots missing_capability and missing_agent, so at least two, and
\* the run returns hitl_required, whatever the results and the verdict are.
C27_NoImageNeedsHuman ==
    media_type # "image" /\ ~CloneDetectionNamed
    => /\ red_team_result # None
             => /\ {"missing_capability", "missing_agent"} \subseteq BlindSpotRisks
                /\ Len(red_team_result.blind_spots) >= 2
       /\ response # None => response.hitl_required

\* a finished run on a video with a forged verdict, and one on an audio
\* whose only agent raised
C27_Witness ==
    /\ pc = "done"
    /\ \/ media_type = "video" /\ response.verdict = "forged"
       \/ media_type = "audio" /\ agent_results = << >>
    /\ ~CloneDetectionNamed
    /\ response.hitl_required

\* with clone detection named, a run on a video can do without a human
C27_CloneDetectionNamed ==
    /\ pc = "done"
    /\ media_type = "video"
    /\ CloneDetectionNamed
    /\ ~response.hitl_required

\* the confidences of the results kept (mils)
ConfidencesKept == {agent_results[i].confidence_score : i \in 1..Len(agent_results)}

\* results of two agent types or more are kept, and the highest and the
\* lowest confidence are more than 0.30 apart
WideSpread ==
    /\ Cardinality({agent_results[i].agent_type : i \in 1..Len(agent_results)}) >= 2
    /\ \E hi, lo \in ConfidencesKept : hi - lo > 300

\* C28: in a run whose results come from two agent types or more with the
\* highest and the lowest confidence more than 0.30 apart, the critique
\* holds a consistency_gap challenge of high severity, its threat level is
\* medium or high, and the run returns hitl_required.
C28_WideSpreadNeedsHuman ==
    WideSpread
    => /\ red_team_result # None
             => /\ \E i \in 1..Len(red_team_result.challenges) :
                       red_team_result.challenges[i]
                           = [type |-> "consistency_gap", severity |-> "high"]
                /\ red_team_result.threat_level \in {"medium", "high"}
       /\ response # None => response.hitl_required

\* a finished run with the verdict "authentic" and the confidences 0.65 and
\* 0.97 among its results
C28_Witness ==
    /\ pc = "done"
    /\ WideSpread
    /\ {650, 970} \subseteq ConfidencesKept
    /\ response.verdict = "authentic"
    /\ response.hitl_required

\* ------------------------------------------------------------------------
\* Orchestrator._final_verdict on its own: analyze stands before the final
\* verdict with some cross-reference result and some critique in hand
\* ------------------------------------------------------------------------
Verdicts == {"authentic", "forged", "inconclusive"}

ThreatLevels == {"low", "medium", "high"}

\* base scores on both sides of the clamp bounds and of the authentic limit
VerdictScores == {0, 40, 740, 749, 750, 780, 945, 1000}

VerdictAdjustments == {-30, 0, 10, 50}

VerdictChallenges ==
    {<< >>,
     <<[type |-> "verdict_challenge", severity |-> "high"]>>,
     <<[type |-> "consistency_gap", severity |-> "high"],
       [type |-> "verdict_challenge", severity |-> "medium"]>>,
     <<[type |-> "consistency_gap", severity |-> "high"]>>}

VerdictBlindSpots ==
    {<< >>,
     <<[agent |-> "system", risk |-> "missing_capability"]>>,
     <<[agent |-> "system", risk |-> "missing_capability"],
       [agent |-> "system", risk |-> "missing_agent"]>>}

InitVerdict ==
    /\ runs = << >>
    /\ completed = Unwatched
    /\ media_type \in {"image"}
    /\ file \in {f \in Files : f.name = "camera"}
    /\ pc = "verdict"
    /\ tasks = [p \in Providers |-> Idle]
    /\ calls = [p \in Providers |-> 0]
    /\ agent_results = << >>
    /\ initial_cross \in [combined_score : VerdictScores, final_verdict : Verdicts]
    /\ red_team_result \in
           [agent_type            : {"red_team"},
            challenges            : VerdictChallenges,
            blind_spots           : VerdictBlindSpots,
            recommendations       : {<< >>},
            confidence_adjustment : VerdictAdjustments,
            threat_level          : ThreatLevels,
            learning_log_size     : {1}]
    /\ response = None
    /\ learning_log = << >>
    /\ reordered = << >>
    /\ reordered_cross = None

NextVerdict == FinalVerdict

SpecVerdict == InitVerdict /\ [][NextVerdict]_vars

\* ------------------------------------------------------------------------
\* CrossReferenceEngine.analyze on its own: opinion lists of up to MaxOpinions
\* opinions, analysed as given and in another order
\* ------------------------------------------------------------------------
MaxOpinions == 3

\* opinions of the four agents and of an agent type WEIGHTS does not list
Opinions ==
    {_result("forensic_technical", 930, << >>),
     _result("physical", 550, << >>),
     _result("ai_generation", 683, << >>),
     _result("contextual", 1000,
             <<Anomaly("period", "high"), Anomaly("location", "medium")>>),
     _result("metadata", 0,
             <<Anomaly("metadata", "high"), Anomaly("ELA", "high"),
               Anomaly("compression", "low")>>)}

\* the lists of n distinct opinions
OpinionLists(n) ==
    {r \in [1..n -> Opinions] : \A i, j \in 1..n : r[i] = r[j] => i = j}

\* the orders results can be put in
Orders(results) ==
    {[i \in 1..Len(results) |-> results[p[i]]] :
        p \in {q \in [1..Len(results) -> 1..Len(results)] :
                  \A i, j \in 1..Len(results) : q[i] = q[j] => i = j}}

InitAgg ==
    /\ runs = << >>
    /\ completed = Unwatched
    /\ media_type \in {"image"}
    /\ file \in {f \in Files : f.name = "camera"}
    /\ pc = "cross"
    /\ tasks = [p \in Providers |-> Idle]
    /\ calls = [p \in Providers |-> 0]
    /\ \E n \in 0..MaxOpinions : agent_results \in OpinionLists(n)
    /\ initial_cross = None
    /\ red_team_result = None
    /\ response = None
    /\ learning_log = << >>
    /\ reordered = << >>
    /\ reordered_cross = None

\* CrossReferenceEngine.analyze on the same results in another order
Reorder ==
    /\ UNCHANGED <<runs, completed>>
    /\ pc = "red_team"
    /\ reordered_cross = None
    /\ \E r \in Orders(agent_results) :
           /\ reordered' = r
           /\ \E c \in {CrossReferenceAnalyze(r)} : reordered_cross' = c
    /\ UNCHANGED <<media_type, file, pc, tasks, calls, agent_results, initial_cross,
                   red_team_result, response, learning_log>>

NextAgg ==
    \/ CrossReference
    \/ Reorder

SpecAgg == InitAgg /\ [][NextAgg]_vars

\* ------------------------------------------------------------------------
\* Properties of Orchestrator._final_verdict (SpecVerdict)
\* ------------------------------------------------------------------------

\* C1: when the critique holds a challenge of type verdict_challenge, of any
\* severity, and the preliminary verdict is authentic or forged, the final
\* verdict is inconclusive.
C1_ChallengedVerdictIsInconclusive ==
    (/\ pc = "done"
     /\ \E i \in 1..Len(red_team_result.challenges) :
            red_team_result.challenges[i].type = "verdict_challenge"
     /\ initial_cross.final_verdict \in {"authentic", "forged"})
    => response.verdict = "inconclusive"

\* a forged verdict with a score that keeps it, challenged at medium severity only
C1_Witness ==
    /\ pc = "done"
    /\ initial_cross.final_verdict = "forged"
    /\ initial_cross.combined_score = 780
    /\ \E i \in 1..Len(red_team_result.challenges) :
           red_team_result.challenges[i].type = "verdict_challenge"
    /\ \A i \in 1..Len(red_team_result.challenges) :
           red_team_result.challenges[i].type = "verdict_challenge"
           => red_team_result.challenges[i].severity = "medium"
    /\ response.verdict = "inconclusive"

\* C2: when no verdict_challenge applies, the final verdict is authentic
\* exactly when the adjusted score is at least 0.75 and the preliminary verdict
\* is authentic, forged exactly when the preliminary verdict is forged, and
\* inconclusive in every other case.
C2_UnchallengedVerdict ==
    LET challenged == \E i \in 1..Len(red_team_result.challenges) :
                          red_team_result.challenges[i].type = "verdict_challenge"
        base       == initial_cross.final_verdict
        \* base_score + adj clamped, in thousandths
        sum        == initial_cross.combined_score + red_team_result.confidence_adjustment
        adjusted   == IF sum < 50 THEN 50 ELSE IF sum > 990 THEN 990 ELSE sum
        authentic  == adjusted >= 750 /\ base = "authentic"
    IN  (pc = "done" /\ ~(challenged /\ base \in {"authentic", "forged"}))
        => /\ response.verdict = "authentic" <=> authentic
           /\ response.verdict = "forged" <=> base = "forged"
           /\ response.verdict = "inconclusive" <=> (~authentic /\ base # "forged")

\* 0.78 - 0.03 is 0.75: an unchallenged authentic verdict at the limit stays
C2_Witness ==
    /\ pc = "done"
    /\ initial_cross.final_verdict = "authentic"
    /\ initial_cross.combined_score = 780
    /\ red_team_result.confidence_adjustment = -30
    /\ \A i \in 1..Len(red_team_result.challenges) :
           red_team_result.challenges[i].type # "verdict_challenge"
    /\ response.verdict = "authentic"

\* C3: hitl_required is true exactly when the final verdict is inconclusive,
\* or the threat level is medium or high, or there are at least 2 blind spots;
\* a run whose final verdict is inconclusive never has hitl_required false.
C3_HitlRequired ==
    pc = "done"
    => /\ response.hitl_required
          <=> \/ response.verdict = "inconclusive"
              \/ red_team_result.threat_level \in {"medium", "high"}
              \/ Len(red_team_result.blind_spots) >= 2
       /\ response.verdict = "inconclusive" => response.hitl_required

\* two blind spots alone call for the human review
C3_Witness ==
    /\ pc = "done"
    /\ response.verdict = "authentic"
    /\ red_team_result.threat_level = "low"
    /\ Len(red_team_result.blind_spots) = 2
    /\ response.hitl_required

\* C4: the confidence returned is base_score + adjustment clamped into
\* [0.05, 0.99], so it is within [0.05, 0.99].
C4_ConfidenceClamped ==
    LET sum == initial_cross.combined_score + red_team_result.confidence_adjustment
    IN  pc = "done"
        => /\ response.confidence_score =
                  (IF sum < 50 THEN 50 ELSE IF sum > 990 THEN 990 ELSE sum)
           /\ response.confidence_score >= 50
           /\ response.confidence_score <= 990

\* 0.0 - 0.03 is raised to 0.05
C4_Witness ==
    /\ pc = "done"
    /\ initial_cross.combined_score = 0
    /\ red_team_result.confidence_adjustment = -30
    /\ response.confidence_score = 50

\* C25: the final verdict is the preliminary verdict or "inconclusive",
\* whatever the critique and its confidence adjustment are: "authentic" and
\* "forged" never turn into each other, and an "inconclusive" preliminary
\* verdict stays "inconclusive".
C25_VerdictKeptOrInconclusive ==
    response # None
    => response.verdict \in {initial_cross.final_verdict, "inconclusive"}

\* an inconclusive preliminary verdict whose score the adjustment lifts to
\* 0.75 stays inconclusive
C25_Witness ==
    /\ pc = "done"
    /\ initial_cross.final_verdict = "inconclusive"
    /\ initial_cross.combined_score = 740
    /\ red_team_result.confidence_adjustment = 10
    /\ red_team_result.challenges = << >>
    /\ response.confidence_score = 750
    /\ response.verdict = "inconclusive"

\* ------------------------------------------------------------------------
\* Properties of CrossReferenceEngine.analyze (SpecAgg)
\* ------------------------------------------------------------------------

\* the high-severity anomalies of all opinions, as (opinion, anomaly) positions
HighAnomalies ==
    UNION {{<<i, j>> : j \in {k \in 1..Len(agent_results[i].anomalies) :
                                 agent_results[i].anomalies[k].severity = "high"}} :
           i \in 1..Len(agent_results)}

\* C5: for a non-empty opinion list the preliminary verdict is forged when
\* there are 3 or more high anomalies, or 2 or more with a combined score
\* below 0.5; else authentic when the combined score is at least 0.75 and
\* there is no high anomaly; else inconclusive.  3 or more high anomalies give
\* forged whatever the score.
C5_PreliminaryVerdict ==
    (initial_cross # None /\ agent_results # << >>)
    => LET high  == Cardinality(HighAnomalies)
           score == initial_cross.combined_score
       IN  /\ initial_cross.final_verdict =
                  (IF high >= 3 \/ (high >= 2 /\ score < 500) THEN "forged"
                   ELSE IF score >= 750 /\ high = 0 THEN "authentic"
                   ELSE "inconclusive")
           /\ high >= 3 => initial_cross.final_verdict = "forged"

\* three high anomalies under a combined score of 0.75 or more
C5_Witness ==
    /\ initial_cross # None
    /\ agent_results # << >>
    /\ Cardinality(HighAnomalies) = 3
    /\ initial_cross.combined_score >= 750
    /\ initial_cross.final_verdict = "forged"

\* the weights of the claim, in thousandths
ClaimedWeight(agent_type) ==
    CASE agent_type = "forensic_technical" -> 350
      [] agent_type = "physical" -> 250
      [] agent_type = "contextual" -> 200
      [] agent_type = "ai_generation" -> 200
      [] OTHER -> 100

RECURSIVE ClaimedWeightedSum(_)
ClaimedWeightedSum(results) ==
    IF results = << >> THEN 0
    ELSE ClaimedWeight(Head(results).agent_type) * Head(results).confidence_score
         + ClaimedWeightedSum(Tail(results))

RECURSIVE ClaimedTotalWeight(_)
ClaimedTotalWeight(results) ==
    IF results = << >> THEN 0
    ELSE ClaimedWeight(Head(results).agent_type) + ClaimedTotalWeight(Tail(results))

\* C6: the combined score is the weight-normalised mean of the confidences
\* (weights 0.35, 0.25, 0.20, 0.20, and 0.10 for any other agent type) to
\* three decimals: it is within 0.0005 of the mean.  It lies in [0, 1]; the
\* total weight of a non-empty list is positive, and the score of the empty
\* list is 0.5.
C6_CombinedScoreIsRoundedMean ==
    initial_cross # None
    => LET score == initial_cross.combined_score
           sum   == ClaimedWeightedSum(agent_results)
           total == ClaimedTotalWeight(agent_results)
       IN  /\ score >= 0 /\ score <= 1000
           /\ agent_results # << >> => total > 0
           /\ agent_results # << >> => /\ 2 * score * total - 2 * sum <= total
                                       /\ 2 * sum - 2 * score * total <= total
           /\ agent_results = << >> => score = 500

\* an opinion of an agent type without a weight of its own, and a mean with
\* more than three decimals
C6_Witness ==
    /\ initial_cross # None
    /\ \E i \in 1..Len(agent_results) : agent_results[i].agent_type = "metadata"
    /\ \E i \in 1..Len(agent_results) : agent_results[i].agent_type = "ai_generation"
    /\ initial_cross.combined_score * ClaimedTotalWeight(agent_results)
           # ClaimedWeightedSum(agent_results)

\* C6 as it is worded: the combined score is the mean itself
C6_CombinedScoreIsMean ==
    (initial_cross # None /\ agent_results # << >>)
    => initial_cross.combined_score * ClaimedTotalWeight(agent_results)
           = ClaimedWeightedSum(agent_results)

\* C7 as it is worded: every order of an opinion list gives the same combined
\* score, the same anomaly counts and the same preliminary verdict
C7_OrderIndependent ==
    (reordered_cross # None /\ agent_results # << >>)
    => /\ reordered_cross.combined_score = initial_cross.combined_score
       /\ reordered_cross.anomaly_summary = initial_cross.anomaly_summary
       /\ reordered_cross.final_verdict = initial_cross.final_verdict

\* C7, what holds of the orders of an opinion list: the anomaly counts are the
\* same, and the combined scores are at most 0.001 apart
C7_OrderChangesLastDecimalOnly ==
    (reordered_cross # None /\ agent_results # << >>)
    => /\ reordered_cross.anomaly_summary = initial_cross.anomaly_summary
       /\ reordered_cross.combined_score - initial_cross.combined_score \in {-1, 0, 1}

\* the same three opinions, authentic in one order and inconclusive in another
C7_Witness ==
    /\ reordered_cross # None
    /\ Len(agent_results) = 3
    /\ initial_cross.final_verdict = "inconclusive"
    /\ initial_cross.combined_score = 749
    /\ reordered_cross.final_verdict = "authentic"
    /\ reordered_cross.combined_score = 750

\* ------------------------------------------------------------------------
\* RedTeamAgent._calc_threat_level on its own (SpecThreat): challenge stands
\* before its threat level with some challenges and blind spots in hand
\* ------------------------------------------------------------------------
MaxChallenges == 4

MaxBlindSpots == 3

\* the lists of at most n challenges, told apart by severity
RECURSIVE ChallengeLists(_)
ChallengeLists(n) ==
    IF n = 0 THEN {<< >>}
    ELSE ChallengeLists(n - 1)
         \cup {Append(c, [type |-> "challenge", severity |-> sev]) :
                   c \in {l \in ChallengeLists(n - 1) : Len(l) = n - 1}, sev \in Severities}

BlindSpotLists(n) ==
    {[i \in 1..k |-> [agent |-> "system", risk |-> "missing_capability"]] : k \in 0..n}

InitThreat ==
    /\ runs = << >>
    /\ completed = Unwatched
    /\ media_type = "image"
    /\ file \in {f \in Files : f.name = "camera"}
    /\ pc = "threat"
    /\ tasks = [p \in Providers |-> Idle]
    /\ calls = [p \in Providers |-> 0]
    /\ agent_results = << >>
    /\ initial_cross = None
    /\ red_team_result \in [challenges  : ChallengeLists(MaxChallenges),
                             blind_spots : BlindSpotLists(MaxBlindSpots)]
    /\ response = None
    /\ learning_log = << >>
    /\ reordered = << >>
    /\ reordered_cross = None

\* threat = self._calc_threat_level(challenges, blind_spots)
CalcThreatLevel ==
    /\ UNCHANGED <<runs, completed>>
    /\ pc = "threat"
    /\ red_team_result' =
           [challenges   |-> red_team_result.challenges,
            blind_spots  |-> red_team_result.blind_spots,
            threat_level |-> _calc_threat_level(red_team_result.challenges,
                                                red_team_result.blind_spots)]
    /\ pc' = "threat_done"
    /\ UNCHANGED <<media_type, file, tasks, calls, agent_results, initial_cross,
                   response, learning_log, reordered, reordered_cross>>

NextThreat == CalcThreatLevel

SpecThreat == InitThreat /\ [][NextThreat]_vars

\* ------------------------------------------------------------------------
\* Properties of RedTeamAgent._calc_threat_level (SpecThreat)
\* ------------------------------------------------------------------------
HighChallenges(challenges) ==
    Cardinality({i \in 1..Len(challenges) : challenges[i].severity = "high"})

ClaimedThreat(high, total) ==
    IF high >= 2 \/ total >= 5 THEN "high"
    ELSE IF high >= 1 \/ total >= 3 THEN "medium"
    ELSE "low"

\* C12: the threat level of any challenges and blind spots is high when at
\* least two challenges are of high severity or challenges and blind spots
\* number five or more, else medium when one challenge is of high severity or
\* they number three or more, else low.
C12_ThreatLevel ==
    pc = "threat_done"
    => red_team_result.threat_level
           = ClaimedThreat(HighChallenges(red_team_result.challenges),
                           Len(red_team_result.challenges)
                               + Len(red_team_result.blind_spots))

\* no challenge of high severity, yet five findings: high by the total alone
C12_Witness ==
    /\ pc = "threat_done"
    /\ HighChallenges(red_team_result.challenges) = 0
    /\ Len(red_team_result.challenges) = 3
    /\ Len(red_team_result.blind_spots) = 2
    /\ red_team_result.threat_level = "high"

ThreatRank(level) == CASE level = "low" -> 0 [] level = "medium" -> 1 [] level = "high" -> 2

\* C13: the threat level is monotone: challenges and blind spots with at
\* least as many high challenges and at least as large a total as those of
\* the state have a threat level that is not lower (low < medium < high).
C13_ThreatLevelMonotone ==
    pc = "threat_done"
    => \A c \in ChallengeLists(MaxChallenges), b \in BlindSpotLists(MaxBlindSpots) :
           (/\ HighChallenges(c) >= HighChallenges(red_team_result.challenges)
            /\ Len(c) + Len(b) >= Len(red_team_result.challenges)
                                     + Len(red_team_result.blind_spots))
           => ThreatRank(_calc_threat_level(c, b))
                  >= ThreatRank(red_team_result.threat_level)

\* a medium threat level with larger inputs above it: one high challenge in
\* a total of three
C13_Witness ==
    /\ pc = "threat_done"
    /\ HighChallenges(red_team_result.challenges) = 1
    /\ Len(red_team_result.challenges) + Len(red_team_result.blind_spots) = 3
    /\ red_team_result.threat_level = "medium"
    /\ \E c \in ChallengeLists(MaxChallenges) :
           /\ HighChallenges(c) = 2
           /\ _calc_threat_level(c, red_team_result.blind_spots) = "high"

\* ------------------------------------------------------------------------
\* RedTeamAgent.challenge on its own (SpecCritique): analyze stands before
\* the cross reference with some results in hand, or before the critique
\* with some cross-reference result as well
\* ------------------------------------------------------------------------
\* what the agent can have contributed: nothing, or one of a few results
CritiqueResultsOf(provider, f) ==
    CASE provider = "forensic_technical" ->
             {<< >>, <<_result("forensic_technical", 950, << >>)>>}
             \cup (IF ForensicRaises(f) THEN {} ELSE {<<ForensicAnalyze(f)>>})
      [] provider = "physical" ->
             {<< >>, <<_result("physical", 950, << >>)>>,
              <<_result("physical", 900,
                        <<Anomaly("shadows", "high"), Anomaly("lighting", "high"),
                          Anomaly("reflections", "high")>>)>>}
      [] provider = "contextual" -> {<< >>, <<_result("contextual", 900, << >>)>>}
      [] provider = "ai_generation" ->
             {<< >>, <<_result("ai_generation", 150,
                               <<Anomaly("AI Generated", "high"),
                                 Anomaly("hands", "medium")>>)>>}

CritiqueResults(f) ==
    {a \o b \o c \o d : a \in CritiqueResultsOf("forensic_technical", f),
                        b \in CritiqueResultsOf("physical", f),
                        c \in CritiqueResultsOf("contextual", f),
                        d \in CritiqueResultsOf("ai_generation", f)}

\* cross-reference results a caller of challenge can pass
CritiqueCrossRefs ==
    {[combined_score |-> 800, final_verdict |-> "authentic"],
     [combined_score |-> 720, final_verdict |-> "forged"],
     [combined_score |-> 700, final_verdict |-> "forged"],
     [combined_score |-> 300, final_verdict |-> "forged"]}

\* the learning log five analyses with many challenges leave
BusyLog ==
    [i \in 1..5 |-> [file_hash |-> "earlier", challenges_count |-> 4,
                     blind_spots_count |-> 1, confidence_adjustment |-> 0,
                     verdict_challenged |-> FALSE]]

InitCritique ==
    /\ runs = << >>
    /\ completed = Unwatched
    /\ media_type = "image"
    /\ file \in Files
    /\ tasks = [p \in Providers |-> Idle]
    /\ calls = [p \in Providers |-> 0]
    /\ agent_results \in CritiqueResults(file)
    /\ \/ pc = "cross" /\ initial_cross = None
       \/ pc = "red_team" /\ initial_cross \in CritiqueCrossRefs
    /\ red_team_result = None
    /\ response = None
    /\ learning_log \in {<< >>, BusyLog}
    /\ reordered = << >>
    /\ reordered_cross = None

NextCritique == CrossReference \/ RedTeam \/ FinalVerdict

SpecCritique == InitCritique /\ [][NextCritique]_vars

\* ------------------------------------------------------------------------
\* Properties of RedTeamAgent.challenge (SpecCritique)
\* ------------------------------------------------------------------------
HasChallenge(type, severity) ==
    \E i \in 1..Len(red_team_result.challenges) :
        /\ red_team_result.challenges[i].type = type
        /\ red_team_result.challenges[i].severity = severity

\* the adjustments the modules proposed, read off the challenges they raised
\* with them (mils)
ProposedAdjustments ==
    (IF HasChallenge("false_positive_risk", "medium") THEN <<50>> ELSE << >>)
    \o (IF HasChallenge("consistency_gap", "high") THEN <<-30>> ELSE << >>)

\* C14: confidence_adjustment is the mean of the adjustments proposed (+0.05
\* by the false-positive check, -0.03 by the consistency check), a module
\* that proposed none not counted, and 0 when none was proposed.
C14_AdjustmentIsMeanOfProposed ==
    red_team_result # None
    => /\ Len(ProposedAdjustments) = 0 => red_team_result.confidence_adjustment = 0
       /\ Len(ProposedAdjustments) = 1
          => red_team_result.confidence_adjustment = ProposedAdjustments[1]
       /\ Len(ProposedAdjustments) = 2
          => 2 * red_team_result.confidence_adjustment
                 = ProposedAdjustments[1] + ProposedAdjustments[2]

\* both modules proposed: (0.05 - 0.03) / 2 = 0.01
C14_Witness ==
    /\ pc = "verdict"
    /\ Len(ProposedAdjustments) = 2
    /\ red_team_result.confidence_adjustment = 10

\* the preliminary verdict is "authentic" while some opinion holds an anomaly
\* of high severity
AuthenticWithHigh ==
    /\ initial_cross # None
    /\ initial_cross.final_verdict = "authentic"
    /\ CountSeverity(AllAnomalies(agent_results), "high") > 0

\* C19: when the preliminary verdict is "authentic" and some opinion holds an
\* anomaly of high severity, challenge raises a verdict_challenge of high
\* severity, and the final verdict is "inconclusive" with hitl_required.
C19_AuthenticWithHighIsChallenged ==
    AuthenticWithHigh
    => /\ red_team_result # None => HasChallenge("verdict_challenge", "high")
       /\ response # None => /\ response.verdict = "inconclusive"
                             /\ response.hitl_required

\* the run of such a case has returned
C19_Witness ==
    /\ AuthenticWithHigh
    /\ pc = "done"
    /\ HasChallenge("verdict_challenge", "high")
    /\ response.verdict = "inconclusive"
    /\ response.cross_reference.final_verdict = "authentic"

\* C21: when the preliminary verdict is "forged" with a combined_score above
\* 0.7, challenge raises a verdict_challenge of medium severity and the
\* final verdict is "inconclusive"; a "forged" preliminary verdict with a
\* combined_score of 0.7 or less is not challenged and stays "forged".
C21_ForgedWithHighScoreIsOverridden ==
    initial_cross # None /\ initial_cross.final_verdict = "forged"
    => /\ red_team_result # None
             => (HasChallenge("verdict_challenge", "medium")
                    <=> initial_cross.combined_score > 700)
       /\ response # None
             => response.verdict = IF initial_cross.combined_score > 700
                                   THEN "inconclusive" ELSE "forged"

\* the run of three high anomalies under a high score has returned
C21_Witness ==
    /\ pc = "done"
    /\ initial_cross = CrossReferenceAnalyze(agent_results)
    /\ initial_cross.final_verdict = "forged"
    /\ initial_cross.combined_score > 700
    /\ HasChallenge("verdict_challenge", "medium")
    /\ response.verdict = "inconclusive"

\* ------------------------------------------------------------------------
\* ForensicTechnicalAgent.analyze on its own (SpecForensic): the agent alone
\* is at work on some file
\* ------------------------------------------------------------------------
MaxRegions == 4

\* files told apart by what the four analyses read from them
ForensicFiles ==
    {File("undecodable", FALSE, "none", 0, 0, "none", 52000, "none", 0, {})}
    \cup {File("input", TRUE, format, dims[1], dims[2], "RGB", size, exif, regions, flags) :
              format \in {"JPEG", "PNG"},
              dims \in {<<1024, 1024>>, <<4000, 3000>>},
              size \in {100000, 9000000},
              exif \in {"none", "camera", "edited", "unreadable"},
              regions \in 0..MaxRegions,
              flags \in SUBSET {"ela_std", "q_std"}}

InitForensic ==
    /\ runs = << >>
    /\ completed = Unwatched
    /\ media_type = "audio"
    /\ file \in ForensicFiles
    /\ pc = "gather"
    /\ tasks = [p \in Providers |-> IF p = "forensic_technical" THEN Pending ELSE Idle]
    /\ calls = [p \in Providers |-> IF p = "forensic_technical" THEN 1 ELSE 0]
    /\ agent_results = << >>
    /\ initial_cross = None
    /\ red_team_result = None
    /\ response = None
    /\ learning_log = << >>
    /\ reordered = << >>
    /\ reordered_cross = None

NextForensic == Return("forensic_technical") \/ Raise("forensic_technical")

SpecForensic == InitForensic /\ [][NextForensic]_vars

\* ------------------------------------------------------------------------
\* Properties of ForensicTechnicalAgent.analyze (SpecForensic)
\* ------------------------------------------------------------------------
ForensicResult == tasks["forensic_technical"].result

SeverityCount(items, sev) == Cardinality({i \in 1..Len(items) : items[i].severity = sev})

\* 0.92 less 0.15, 0.08 and 0.03 for each high, medium and low anomaly, not
\* below 0.15 (mils)
ClaimedConfidence(items) ==
    IF 920 - 150 * SeverityCount(items, "high") - 80 * SeverityCount(items, "medium")
           - 30 * SeverityCount(items, "low") >= 150
    THEN 920 - 150 * SeverityCount(items, "high") - 80 * SeverityCount(items, "medium")
             - 30 * SeverityCount(items, "low")
    ELSE 150

\* C15: for the anomalies found in a decodable image the confidence is 0.92
\* when there are none and else max(0.15, 0.92 - penalties), the penalty of
\* an anomaly 0.15, 0.08 or 0.03 by severity; one more anomaly never raises it.
C15_ConfidenceFromPenalties ==
    (file.decodable /\ tasks["forensic_technical"].state = "returned")
    => /\ ForensicResult.confidence_score = ClaimedConfidence(ForensicResult.anomalies)
       /\ ForensicResult.anomalies = << >> => ForensicResult.confidence_score = 920
       /\ \A sev \in Severities :
              _calculate_confidence(Append(ForensicResult.anomalies, Anomaly("one more", sev)))
                  <= ForensicResult.confidence_score

\* a dimension match and a double compression, both medium: 0.76
C15_Witness ==
    /\ tasks["forensic_technical"].state = "returned"
    /\ file.decodable
    /\ ForensicResult.anomalies
           = <<Anomaly("double compression", "medium"), Anomaly("dimensions", "medium")>>
    /\ ForensicResult.confidence_score = 760

\* C16 (the part that holds): for bytes that no image decoder opens analyze
\* returns, and what it returns is tagged forensic_technical, has confidence
\* 0.5 and the one anomaly of type format and severity medium, none from the
\* four analyses.
C16_UndecodableGivesDegradedRecord ==
    (~file.decodable /\ tasks["forensic_technical"] # Pending)
    => tasks["forensic_technical"]
           = Returned([agent_type       |-> "forensic_technical",
                       confidence_score |-> 500,
                       anomalies        |-> <<[type |-> "format", severity |-> "medium"]>>])

\* analyze has returned the degraded record
C16_Witness ==
    /\ ~file.decodable
    /\ tasks["forensic_technical"].state = "returned"
    /\ ForensicResult.confidence_score = 500

\* C16 as claimed: analyze never raises to its caller.
C16_NeverRaises == tasks["forensic_technical"].state # "raised"

\* ------------------------------------------------------------------------
\* Calls of Orchestrator.analyze side by side on one event loop (SpecRuns).
\* Every call has its own Orchestrator and RedTeamAgent; learning_log is an
\* attribute of the class and so the one list of them all.  A call is
\* suspended in asyncio.gather; from there on it has no await that suspends
\* it (challenge awaits nothing), and the steps below may interleave more
\* freely than the event loop lets them.
\* ------------------------------------------------------------------------
MaxRuns == 2

\* the file and the results kept of a call
RunInputs ==
    {[file          |-> f,
      agent_results |-> <<ForensicAnalyze(f)>> \o extra]
        : f \in {g \in Files : g.name = "shared"},
          extra \in {<<_result("physical", 950, << >>)>>}}
    \cup {[file |-> f, agent_results |-> <<ForensicAnalyze(f)>>]
              : f \in {g \in Files : g.name = "scan"}}

\* the learning log four earlier analyses left
QuietLog ==
    [i \in 1..4 |-> [file_hash |-> "earlier", challenges_count |-> 3,
                     blind_spots_count |-> 2, confidence_adjustment |-> 0,
                     verdict_challenged |-> FALSE]]

InitRuns ==
    /\ media_type = "image"
    /\ file \in {f \in Files : f.name = "camera"}
    /\ pc = "runs"
    /\ completed = Unwatched
    /\ tasks = [p \in Providers |-> Idle]
    /\ calls = [p \in Providers |-> 0]
    /\ agent_results = << >>
    /\ initial_cross = None
    /\ red_team_result = None
    /\ response = None
    /\ learning_log \in {<< >>, QuietLog}
    /\ reordered = << >>
    /\ reordered_cross = None
    /\ \E inputs \in [1..MaxRuns -> RunInputs] :
           runs = [r \in 1..MaxRuns |->
                      [pc              |-> "gather",
                       file            |-> inputs[r].file,
                       agent_results   |-> inputs[r].agent_results,
                       initial_cross   |-> None,
                       red_team_result |-> None,
                       response        |-> None]]

\* asyncio.gather completes and the call goes on to the cross reference
RunCross(r) ==
    /\ runs[r].pc = "gather"
    /\ runs' = [runs EXCEPT ![r].pc = "red_team",
                            ![r].initial_cross =
                                CrossReferenceAnalyze(runs[r].agent_results)]
    /\ UNCHANGED <<media_type, file, pc, tasks, calls, agent_results, initial_cross,
                   red_team_result, response, learning_log, reordered, reordered_cross,
                   completed>>

\* await self.red_team.challenge(...): one step, as challenge awaits nothing
RunChallenge(r) ==
    /\ runs[r].pc = "red_team"
    /\ \E c \in {challenge(runs[r].file, runs[r].agent_results,
                            runs[r].initial_cross, learning_log)} :
           /\ runs' = [runs EXCEPT ![r].pc = "verdict",
                                   ![r].red_team_result = c.result]
           /\ learning_log' = RecordEntry(learning_log, c.entry)
    /\ UNCHANGED <<media_type, file, pc, tasks, calls, agent_results, initial_cross,
                   red_team_result, response, reordered, reordered_cross,
                   completed>>

\* the final verdict and the return of analyze
RunReturn(r) ==
    /\ runs[r].pc = "verdict"
    /\ \E final \in {_final_verdict(runs[r].initial_cross, runs[r].red_team_result)} :
           runs' = [runs EXCEPT ![r].pc = "done",
                                ![r].response =
                                    [verdict          |-> final.verdict,
                                     confidence_score |-> final.confidence,
                                     hitl_required    |-> final.hitl_required]]
    /\ UNCHANGED <<media_type, file, pc, tasks, calls, agent_results, initial_cross,
                   red_team_result, response, learning_log, reordered, reordered_cross,
                   completed>>

NextRuns ==
    \/ \E r \in 1..MaxRuns : RunCross(r)
    \/ \E r \in 1..MaxRuns : RunChallenge(r)
    \/ \E r \in 1..MaxRuns : RunReturn(r)

SpecRuns == InitRuns /\ [][NextRuns]_vars

\* the calls whose challenge has returned
Challenged == {r \in 1..MaxRuns : runs[r].pc \in {"verdict", "done"}}

\* the entries the earlier analyses left
EarlierEntries == {i \in 1..Len(learning_log) : learning_log[i].file_hash = "earlier"}

\* the entry at the place a call's result names is the entry of that call
EntryOfRun(r) ==
    LET res == runs[r].red_team_result
    IN  /\ res.learning_log_size \in 1..Len(learning_log)
        /\ learning_log[res.learning_log_size] =
               [file_hash             |-> runs[r].file.name,
                challenges_count      |-> Len(res.challenges),
                blind_spots_count     |-> Len(res.blind_spots),
                confidence_adjustment |-> res.confidence_adjustment,
                verdict_challenged    |->
                    \E i \in 1..Len(res.challenges) :
                        res.challenges[i].type = "verdict_challenge"]

HistoryHoldsRuns ==
    /\ Len(learning_log) = Cardinality(EarlierEntries) + Cardinality(Challenged)
    /\ \A r \in Challenged : EntryOfRun(r)

HistoryStep ==
    /\ Len(learning_log') \in {Len(learning_log), Len(learning_log) + 1}
    /\ SubSeq(learning_log', 1, Len(learning_log)) = learning_log
    /\ \A r \in 1..MaxRuns :
           runs[r].pc = "red_team" /\ runs'[r].pc = "verdict"
               => /\ Len(learning_log') = Len(learning_log) + 1
                  /\ runs'[r].red_team_result.learning_log_size = Len(learning_log')

\* C17: every call of challenge appends exactly one entry to the learning
\* log before it returns, carrying the call's challenge count, blind-spot
\* count, rounded adjustment and whether a verdict_challenge fired; the
\* entries already there are never changed, reordered or removed, so after
\* n calls have returned the log holds n more entries, in the order of the
\* calls.
C17_OneEntryPerChallenge == []HistoryHoldsRuns /\ [][HistoryStep]_vars

\* two calls have returned after four earlier ones, with different counts
C17_Witness ==
    /\ Challenged = 1..MaxRuns
    /\ Len(learning_log) = 4 + MaxRuns
    /\ learning_log[5].challenges_count # learning_log[6].challenges_count
    /\ learning_log[4].file_hash = "earlier"

\* what a call's challenge returns when it runs alone on the entries before its own
AloneOnHistory(r) ==
    challenge(runs[r].file, runs[r].agent_results, runs[r].initial_cross,
              SubSeq(learning_log, 1, runs[r].red_team_result.learning_log_size - 1))

\* C18: for any interleaving of the calls, the learning log ends with one
\* entry per call (none lost, none twice), and every call read the last
\* five entries and appended its own with no append of another call in
\* between: its result is the one of a challenge that ran alone on the
\* entries before its own.
C18_AppendsSerialized ==
    /\ (\A r \in 1..MaxRuns : runs[r].pc = "done")
           => Len(learning_log) = Cardinality(EarlierEntries) + MaxRuns
    /\ \A r \in Challenged :
           /\ runs[r].red_team_result.learning_log_size \in 1..Len(learning_log)
           /\ runs[r].red_team_result = AloneOnHistory(r).result
           /\ learning_log[runs[r].red_team_result.learning_log_size]
                  = AloneOnHistory(r).entry
    /\ \A r1, r2 \in Challenged :
           r1 # r2 => runs[r1].red_team_result.learning_log_size
                         # runs[r2].red_team_result.learning_log_size

\* both calls are done, and the later one read the entry of the other:
\* on the four earlier entries alone it would have recommended otherwise
C18_Witness ==
    /\ \A r \in 1..MaxRuns : runs[r].pc = "done"
    /\ Len(learning_log) = 4 + MaxRuns
    /\ \E r \in 1..MaxRuns :
           /\ runs[r].red_team_result.learning_log_size = 6
           /\ runs[r].red_team_result.recommendations
                  # challenge(runs[r].file, runs[r].agent_results,
                              runs[r].initial_cross,
                              SubSeq(learning_log, 1, 4)).result.recommendations

\* the call of run r recommends "over-sensitive system"
RunOverSensitive(r) ==
    \E i \in 1..Len(runs[r].red_team_result.recommendations) :
        runs[r].red_team_result.recommendations[i] = "over_sensitive"

\* the challenge counts of the entries at the places from..to of the log
RECURSIVE CountsBetween(_, _)
CountsBetween(from, to) ==
    IF from > to THEN 0
    ELSE learning_log[from].challenges_count + CountsBetween(from + 1, to)

\* C29: the learning log is one list for all RedTeamAgent instances of the
\* process: the calls of challenge, each through the instance of its own
\* Orchestrator, report as learning_log_size their number among all the
\* calls made so far, and the trend check of a call reads the entries the
\* other instances wrote.
C29_OneLogForAllInstances ==
    /\ {runs[r].red_team_result.learning_log_size : r \in Challenged}
           = (Cardinality(EarlierEntries) + 1)
                 .. (Cardinality(EarlierEntries) + Cardinality(Challenged))
    /\ \A r \in Challenged :
           runs[r].red_team_result.learning_log_size > 5
               => (RunOverSensitive(r)
                      <=> CountsBetween(runs[r].red_team_result.learning_log_size - 5,
                                        runs[r].red_team_result.learning_log_size - 1)
                              > 15)

\* the sixth call recommends the trend for the entry the fifth call wrote
\* through another instance
C29_Witness ==
    \E r \in Challenged :
        /\ runs[r].red_team_result.learning_log_size = 6
        /\ RunOverSensitive(r)
        /\ learning_log[5].file_hash # "earlier"
        /\ CountsBetween(1, 4) = 12

\* ------------------------------------------------------------------------
\* analyze on one forensic_technical opinion of 0.95 without anomalies
\* (SpecScenario): either the opinion has just been gathered, or analyze
\* stands before the final verdict with the opinion's cross reference and
\* some critique in hand
\* ------------------------------------------------------------------------
ScenarioOpinions == <<_result("forensic_technical", 950, << >>)>>

\* critiques whose threat level is the one of their challenges and blind spots
ScenarioCritiques ==
    {[agent_type            |-> "red_team",
      challenges            |-> ch,
      blind_spots           |-> bs,
      recommendations       |-> << >>,
      confidence_adjustment |-> adj,
      threat_level          |-> _calc_threat_level(ch, bs),
      learning_log_size     |-> 1]
        : ch \in VerdictChallenges
                 \cup {<<[type |-> "false_positive_risk", severity |-> "medium"]>>},
          bs \in VerdictBlindSpots,
          adj \in VerdictAdjustments}

InitScenario ==
    /\ runs = << >>
    /\ completed = Unwatched
    /\ media_type = "image"
    /\ file \in Files
    /\ tasks = [p \in Providers |-> Idle]
    /\ calls = [p \in Providers |-> 0]
    /\ agent_results = ScenarioOpinions
    /\ \/ /\ pc = "cross"
          /\ initial_cross = None
          /\ red_team_result = None
       \/ /\ pc = "verdict"
          /\ initial_cross = CrossReferenceAnalyze(agent_results)
          /\ red_team_result \in ScenarioCritiques
    /\ response = None
    /\ learning_log = << >>
    /\ reordered = << >>
    /\ reordered_cross = None

NextScenario == CrossReference \/ RedTeam \/ FinalVerdict

SpecScenario == InitScenario /\ [][NextScenario]_vars

\* the critique in hand raised no verdict_challenge and rates the threat low
QuietCritique ==
    /\ red_team_result # None
    /\ \A i \in 1..Len(red_team_result.challenges) :
           red_team_result.challenges[i].type # "verdict_challenge"
    /\ red_team_result.threat_level = "low"

ScenarioAggregate ==
    initial_cross # None
    => /\ initial_cross.combined_score = 950
       /\ initial_cross.final_verdict = "authentic"

\* RedTeamAgent.challenge on the opinion names its three blind spots
ScenarioCritiqueStep ==
    pc = "red_team" /\ pc' = "verdict"
    => /\ Len(red_team_result'.blind_spots) = 3
       /\ red_team_result'.threat_level # "low"

\* C20 as stated: for the one forensic_technical opinion of 0.95 without
\* anomalies the cross reference returns combined_score 0.95 and the verdict
\* "authentic"; and with no verdict_challenge in the critique and the threat
\* level low, the final verdict is "authentic" and hitl_required is false.
C20_QuietCritiqueNeedsNoHuman ==
    /\ ScenarioAggregate
    /\ response # None /\ QuietCritique
           => response.verdict = "authentic" /\ ~response.hitl_required

\* C20, amended: for the one forensic_technical opinion of 0.95 without
\* anomalies the cross reference returns combined_score 0.95 and the verdict
\* "authentic"; with no verdict_challenge in the critique, the threat level
\* low and fewer than two blind spots, the final verdict is "authentic" and
\* hitl_required is false, and with two blind spots hitl_required is true
\* at the same threat level; the critique RedTeamAgent.challenge itself
\* returns on this opinion names three blind spots and no low threat.
C20_QuietCritiqueFewBlindSpots ==
    /\ [](/\ ScenarioAggregate
          /\ response # None /\ QuietCritique
                => /\ response.verdict = "authentic"
                   /\ response.hitl_required
                          = (Len(red_team_result.blind_spots) >= 2))
    /\ [][ScenarioCritiqueStep]_vars

\* the final verdict on a quiet critique with one blind spot
C20_Witness ==
    /\ pc = "done"
    /\ QuietCritique
    /\ Len(red_team_result.blind_spots) = 1
    /\ response.cross_reference.combined_score = 950
    /\ response.cross_reference.final_verdict = "authentic"
    /\ response.verdict = "authentic"
    /\ ~response.hitl_required

\* ------------------------------------------------------------------------
\* RedTeamAgent._check_cross_consistency on its own (SpecConsistency): the
\* critique stands before its consistency check with some results kept
\* ------------------------------------------------------------------------
ForensicOpinion(anomalies) ==
    _result("forensic_technical", _calculate_confidence(anomalies), anomalies)

\* forensic opinions of 0.92, 0.76, 0.74 and 0.41, or none
ConsistencyForensic ==
    {<< >>,
     <<ForensicOpinion(<< >>)>>,
     <<ForensicOpinion(<<Anomaly("ELA", "medium"), Anomaly("dimensions", "medium")>>)>>,
     <<ForensicOpinion(<<Anomaly("dates", "high"), Anomaly("compression", "low")>>)>>,
     <<ForensicOpinion(<<Anomaly("ELA", "high"), Anomaly("ELA", "high"),
                         Anomaly("dates", "high"), Anomaly("compression", "low"),
                         Anomaly("compression", "low")>>)>>}

ConsistencyContextual ==
    {<< >>} \cup {<<_result("contextual", score, << >>)>>
                     : score \in {160, 510, 650, 660, 900}}

ConsistencyPhysical == {<< >>, <<_result("physical", 950, << >>)>>}

InitConsistency ==
    /\ runs = << >>
    /\ completed = Unwatched
    /\ media_type = "image"
    /\ file \in {f \in Files : f.name = "camera"}
    /\ pc = "consistency"
    /\ tasks = [p \in Providers |-> Idle]
    /\ calls = [p \in Providers |-> 0]
    /\ \E a \in ConsistencyForensic, b \in ConsistencyPhysical,
          c \in ConsistencyContextual : agent_results = a \o b \o c
    /\ initial_cross = None
    /\ red_team_result = None
    /\ response = None
    /\ learning_log = << >>
    /\ reordered = << >>
    /\ reordered_cross = None

\* consistency = self._check_cross_consistency(agent_results)
CheckCrossConsistency ==
    /\ UNCHANGED <<runs, completed>>
    /\ pc = "consistency"
    /\ red_team_result' = _check_cross_consistency(agent_results)
    /\ pc' = "consistency_done"
    /\ UNCHANGED <<media_type, file, tasks, calls, agent_results, initial_cross,
                   response, learning_log, reordered, reordered_cross>>

NextConsistency == CheckCrossConsistency

SpecConsistency == InitConsistency /\ [][NextConsistency]_vars

\* the opinions of an agent type among the results kept
OpinionsOf(agent_type) ==
    {i \in 1..Len(agent_results) : agent_results[i].agent_type = agent_type}

\* the confidence of the agent type, 0.5 when it has no opinion (mils)
ConfidenceOrHalf(agent_type) ==
    IF OpinionsOf(agent_type) = {} THEN 500
    ELSE agent_results[CHOOSE i \in OpinionsOf(agent_type) : TRUE].confidence_score

Distance(a, b) == IF a >= b THEN a - b ELSE b - a

Disagreement ==
    \E i \in 1..Len(red_team_result.challenges) :
        red_team_result.challenges[i]
            = [type |-> "cross_disagreement", severity |-> "medium"]

\* C22 as stated: the consistency check raises a medium cross_disagreement
\* exactly when the forensic and the contextual confidence differ by more
\* than 0.25, and raises none when one of the two opinions is absent.
C22_DisagreementOfPresentOpinions ==
    pc = "consistency_done"
    => (Disagreement
           <=> /\ OpinionsOf("forensic_technical") # {}
               /\ OpinionsOf("contextual") # {}
               /\ Distance(ConfidenceOrHalf("forensic_technical"),
                           ConfidenceOrHalf("contextual")) > 250)

\* C22, as the code has it: with 0.5 standing for the confidence of an absent
\* opinion, a medium cross_disagreement is raised when the two confidences
\* differ by more than 0.25 and none when they differ by less; at a distance
\* of 0.25 the float difference decides.
C22_DisagreementWithHalfForAbsent ==
    pc = "consistency_done"
    => /\ Distance(ConfidenceOrHalf("forensic_technical"),
                   ConfidenceOrHalf("contextual")) > 250 => Disagreement
       /\ Distance(ConfidenceOrHalf("forensic_technical"),
                   ConfidenceOrHalf("contextual")) < 250 => ~Disagreement

\* a forensic opinion of 0.92 alone, and the disagreement raised
C22_Witness ==
    /\ pc = "consistency_done"
    /\ OpinionsOf("contextual") = {}
    /\ ConfidenceOrHalf("forensic_technical") = 920
    /\ Disagreement

\* opinions of 0.41 and 0.66 are 0.25 apart, and the disagreement is raised
C22_FloatBoundary ==
    /\ pc = "consistency_done"
    /\ ConfidenceOrHalf("forensic_technical") = 410
    /\ ConfidenceOrHalf("contextual") = 660
    /\ OpinionsOf("contextual") # {}
    /\ Disagreement

\* ------------------------------------------------------------------------
\* RedTeamAgent.challenge after earlier analyses of the process
\* (SpecHistory): the learning log holds what they left
\* ------------------------------------------------------------------------
\* n entries of earlier analyses with the challenge counts given, the
\* oldest first
EarlierLog(counts) ==
    [i \in 1..Len(counts) |->
        [file_hash |-> "earlier", challenges_count |-> counts[i],
         blind_spots_count |-> 2, confidence_adjustment |-> 0,
         verdict_challenged |-> FALSE]]

HistoryLogs ==
    {EarlierLog(counts) : counts \in {<< >>,
                                      <<3, 3, 3, 3>>,
                                      <<4, 4, 4, 4>>,
                                      <<3, 3, 3, 3, 3>>,
                                      <<3, 3, 4, 3, 3>>,
                                      <<9, 3, 3, 3, 3, 3>>,
                                      <<0, 4, 3, 3, 3, 3>>,
                                      [i \in 1..199 |-> 2],
                                      [i \in 1..200 |-> 4]}}

HistoryResults(f) ==
    {<<ForensicAnalyze(f)>>,
     <<ForensicAnalyze(f), _result("physical", 950, << >>)>>,
     <<ForensicAnalyze(f), _result("contextual", 900, << >>),
       _result("ai_generation", 150,
               <<Anomaly("AI Generated", "high"), Anomaly("hands", "medium")>>)>>}

InitHistory ==
    /\ runs = << >>
    /\ completed = Unwatched
    /\ media_type = "image"
    /\ file \in {f \in Files : ~ForensicRaises(f)}
    /\ pc = "red_team"
    /\ tasks = [p \in Providers |-> Idle]
    /\ calls = [p \in Providers |-> 0]
    /\ agent_results \in HistoryResults(file)
    /\ initial_cross = CrossReferenceAnalyze(agent_results)
    /\ red_team_result = None
    /\ response = None
    /\ learning_log \in HistoryLogs
    /\ reordered = << >>
    /\ reordered_cross = None

NextHistory == RedTeam \/ FinalVerdict

SpecHistory == InitHistory /\ [][NextHistory]_vars

\* C23 as stated: the learning log never holds more than 200 entries.
C23_HistoryBounded == Len(learning_log) <= 200

\* C23, as the code has it: challenge keeps every entry of the log and adds
\* its own, whatever the length of the log.
C23_HistoryOnlyGrows ==
    [][pc = "red_team" /\ pc' = "verdict"
          => /\ Len(learning_log') = Len(learning_log) + 1
             /\ SubSeq(learning_log', 1, Len(learning_log)) = learning_log]_vars

\* the analysis after two hundred others has left its entry
C23_Witness ==
    /\ pc = "done"
    /\ Len(learning_log) = 201
    /\ learning_log[1].file_hash = "earlier"
    /\ learning_log[201].file_hash = file.name

\* the entries the learning log held when the critique in hand began
EntriesBefore == SubSeq(learning_log, 1, red_team_result.learning_log_size - 1)

\* the challenge counts of the five entries before the one at place last + 1
CountsOfFive(last) ==
    learning_log[last - 4].challenges_count + learning_log[last - 3].challenges_count
    + learning_log[last - 2].challenges_count + learning_log[last - 1].challenges_count
    + learning_log[last].challenges_count

OverSensitive ==
    \E i \in 1..Len(red_team_result.recommendations) :
        red_team_result.recommendations[i] = "over_sensitive"

\* C24: a critique recommends "over-sensitive system" exactly when the
\* learning log held at least five entries of earlier runs as it began and
\* the challenge counts of the five most recent of them average more than 3
\* (sum above 15); the count of the critique itself is no part of it, and a
\* critique whose entry is among the first five of the log never recommends it.
C24_TrendFromEarlierRuns ==
    red_team_result # None
    => /\ OverSensitive
             <=> /\ Len(EntriesBefore) >= 5
                 /\ CountsOfFive(Len(EntriesBefore)) > 15
       /\ red_team_result.learning_log_size <= 5 => ~OverSensitive

\* five earlier runs of three challenges each, a critique of more than three
\* challenges, and no trend recommended
C24_Witness ==
    /\ red_team_result # None
    /\ Len(EntriesBefore) = 5
    /\ CountsOfFive(5) = 15
    /\ Len(red_team_result.challenges) > 3
    /\ ~OverSensitive

\* the trend is recommended after five earlier runs of sixteen challenges
C24_Recommended ==
    /\ red_team_result # None
    /\ Len(EntriesBefore) = 5
    /\ CountsOfFive(5) = 16
    /\ OverSensitive

\* ------------------------------------------------------------------------
\* Orchestrator.analyze with the order watched in which the providers
\* return or raise (SpecOrder)
\* ------------------------------------------------------------------------
InitOrder ==
    /\ runs = << >>
    /\ completed = [watched |-> TRUE, order |-> << >>]
    /\ media_type \in {"video", "document"}
    /\ file \in {f \in Files : f.name \in {"shared", "truncated"}}
    /\ pc = "start"
    /\ tasks = [p \in Providers |-> Idle]
    /\ calls = [p \in Providers |-> 0]
    /\ agent_results = << >>
    /\ initial_cross = None
    /\ red_team_result = None
    /\ response = None
    /\ learning_log = << >>
    /\ reordered = << >>
    /\ reordered_cross = None

SpecOrder == InitOrder /\ [][Next]_vars

\* the providers that returned, in the order forensic, physical, contextual,
\* AI generation
ReturnedInSelectionOrder ==
    SelectSeq(<<"forensic_technical", "physical", "contextual", "ai_generation">>,
              LAMBDA p : tasks[p].state = "returned")

\* the results of the providers that returned, in that order
ResultsInSelectionOrder ==
    [i \in 1..Len(ReturnedInSelectionOrder) |-> tasks[ReturnedInSelectionOrder[i]].result]

\* C30: what a run returns does not depend on the order in which its
\* providers complete: the results kept are those of the providers that
\* returned, in the order of selection (forensic, physical, contextual, AI
\* generation), and the cross reference, the critique, the verdict, the
\* confidence and hitl_required are those of these results, whatever the
\* order of completion was.
C30_CompletionOrderIsNoInput ==
    /\ pc \in {"cross", "red_team", "verdict", "done"}
           => agent_results = ResultsInSelectionOrder
    /\ pc = "done"
           => /\ response.agent_results = ResultsInSelectionOrder
              /\ response.cross_reference
                     = CrossReferenceAnalyze(ResultsInSelectionOrder)
              /\ response.red_team
                     = challenge(file, ResultsInSelectionOrder,
                                 CrossReferenceAnalyze(ResultsInSelectionOrder),
                                 << >>).result
              /\ \E final \in {_final_verdict(response.cross_reference,
                                               response.red_team)} :
                     /\ response.verdict = final.verdict
                     /\ response.confidence_score = final.confidence
                     /\ response.hitl_required = final.hitl_required

\* a finished run whose providers completed in the reverse of the order of
\* selection, one of them raising
C30_Witness ==
    /\ pc = "done"
    /\ completed.order = <<"contextual", "physical", "forensic_technical">>
    /\ tasks["physical"] = Raised
    /\ Len(response.agent_results) = 2
    /\ response.agent_results[1].agent_type = "forensic_technical"
    /\ response.agent_results[2].agent_type = "contextual"

====
